---- MODULE Spec2Model ----
(***************************************************************************)
(* Webhook reconciliation and payment-status state machine of the          *)
(* gvt-payments service: the payments_status table, the in-memory          *)
(* pending-order index, the checkout and webhook handlers and the          *)
(* pending-order timeout.  Handlers are split at their awaited store       *)
(* round-trips, so concurrent requests interleave exactly there.           *)
(***************************************************************************)
EXTENDS Integers, Sequences, FiniteSets, Bags, TLC

\* ---------------------------------------------------------------- bounds
MaxInFlight == 2
MaxRows == 2
MaxRequests == 3
TTL == 1

\* ------------------------------------------------------------- constants
NULL == "null"
UNDEFINED == "undefined"
PendingLimit == 5
DefaultMaxRetries == 3
MIN_VERIFICATION_INTERVAL == 1
SessionSlot == "1"

\* The order ids the provider hands out, in this order.
OrderIds == <<"O1", "O2">>
NumericIds == {"N1"}
Identifiers == {"I1"}
RawStatuses == {"paid", "disputed"}
EventNames == {"order_created", "subscription_updated"}

PENDING == "PENDING"
PAID == "PAID"
VOID == "VOID"
REFUNDED == "REFUNDED"
TIMEOUT == "TIMEOUT"
PaymentStatus == {PENDING, PAID, VOID, REFUNDED, TIMEOUT}

VARIABLES
    payments_status,   \* rows of table payments_status, in insertion order
    payments,          \* order ids present in table payments (never written by the service)
    uniqueOrderId,     \* deployment schema: payments_status has a unique index on order_id
    revision,          \* deployed revision: "slot" (fixed session slot) or "keyed" (index keyed by order id)
    orderStore,        \* pending-order index: key -> entry
    issued,            \* how many order ids the provider has handed out
    started,           \* number of requests received so far
    reqs,              \* in-flight requests (a bag): locals and position of each
    webhookErrorCount, \* the webhook handler's count of rejected webhooks
    verificationsCache,\* verify endpoint: order id -> latest cached verification
    providerQueried,   \* order id -> time since verify last queried the provider for it
    rateLimitStore,    \* rate limiter: key -> count and time left in the window
    cache,             \* Cache: key -> value and time left until expiry
    memoCache,         \* memoizeAsync: key -> the promise cached for it
    promises,          \* the promises fn has returned, in order of invocation
    lastResp           \* the response returned by the latest step, NoResp if it returned none

vars == <<payments_status, payments, uniqueOrderId, revision, orderStore,
          issued, started, reqs, webhookErrorCount, verificationsCache,
          providerQueried, rateLimitStore, cache, memoCache, promises, lastResp>>

utilVars == <<rateLimitStore, cache, memoCache, promises>>

verifyVars == <<verificationsCache, providerQueried>>

\* ------------------------------------------------------------ data shapes
NoRow == [order_id |-> NULL, status |-> NULL, numeric_id |-> NULL,
          identifier_id |-> NULL]

\* Webhook payloads: custom_data.order_id, attributes.identifier, data.id,
\* attributes.status and the event name.
\* x-signature header values: the hex digest the provider computes over the
\* body (64 characters for sha256), a different value of the same length, and
\* a value of another length; NoSignature is a request without the header.
Digest == [hex |-> "digest", len |-> 64]

NoSignature == [hex |-> NULL, len |-> 0]

Signatures == {Digest, [hex |-> "other", len |-> 64], [hex |-> "short", len |-> 5]}

WebhookInputs ==
    {in \in [custom : {NULL, "O1"}, identifier : Identifiers \cup {NULL},
             numeric : NumericIds, raw : RawStatuses, event : EventNames] :
        in.custom # NULL => in.identifier # NULL}

\* What the existence check of updatePaymentStatus keeps of the row it read.
NoExisting ==
    [found |-> FALSE, status |-> NULL, numeric_id |-> NULL, identifier_id |-> NULL]

\* A request: the handler's locals and its position; path records how the
\* target order id was arrived at, and redelivery whether the webhook had
\* already been applied when it was received.  A caller that repeats its call
\* keeps the round it is in and the result of the first call.
Idle == [kind |-> "idle", pc |-> "idle", orderId |-> NULL, status |-> NULL,
         numeric_id |-> NULL, identifier_id |-> NULL, existing |-> NoExisting,
         key |-> NULL, path |-> NULL, redelivery |-> FALSE, round |-> 0,
         first |-> FALSE, raw |-> NULL, event |-> NULL, retries |-> 0,
         log |-> <<>>, elapsed |-> 0, requery |-> FALSE,
         signature |-> NoSignature, promise |-> 0]

NoResp == [kind |-> "none", code |-> 0, ok |-> FALSE, orderId |-> NULL,
           wrote |-> FALSE, path |-> NULL, prior |-> NULL, raw |-> NULL,
           event |-> NULL]

\* JavaScript a || b on identifiers: a null/undefined left operand yields b.
Or(a, b) == IF a # NULL THEN a ELSE b

\* ------------------------------------------------- payment store (db layer)
RowIdx(t, o) == {i \in 1..Len(t) : t[i].order_id = o}

\* An existence check that never finds the row.
SelectSingleBlind(t, o) == NoExisting

\* PostgREST .single(): the row when exactly one matches, otherwise an error and no data.
SelectSingle(t, o) ==
    LET I == RowIdx(t, o)
    IN  IF Cardinality(I) = 1
        THEN LET row == t[CHOOSE i \in I : TRUE]
             IN  [found |-> TRUE, status |-> row.status,
                  numeric_id |-> row.numeric_id,
                  identifier_id |-> row.identifier_id]
        ELSE NoExisting

\* A status query that finds no row for any order id.
getPaymentStatusNone(t, o) == {NoRow}

\* getPaymentStatus: the rows the query may return for the order id (the one
\* written last; the table keeps no write order, so any of them), or NoRow
\* when there is none.
getPaymentStatus(t, o) ==
    LET I == RowIdx(t, o)
    IN  IF I = {} THEN {NoRow} ELSE {t[i] : i \in I}

\* No status guard: the value is written as it is given.
ValidateStatusNone(s) == s

\* updatePaymentStatus, status guard: a value outside the enum becomes PENDING.
ValidateStatus(s) == IF s \in PaymentStatus THEN s ELSE PENDING

\* The update branch without the fallback to the ids read before.
UpdateRowsOverwrite(t, o, s, num, ident, ex) ==
    [i \in 1..Len(t) |->
        IF t[i].order_id = o
        THEN [t[i] EXCEPT !.status = s, !.numeric_id = num,
                          !.identifier_id = ident]
        ELSE t[i]]

\* The update branch with settled statuses protected from later writes.
UpdateRowsKeepTerminal(t, o, s, num, ident, ex) ==
    [i \in 1..Len(t) |->
        IF t[i].order_id = o
        THEN [t[i] EXCEPT !.status = IF @ \in {PAID, VOID, REFUNDED, TIMEOUT}
                                     THEN @ ELSE s,
                          !.numeric_id = Or(num, ex.numeric_id),
                          !.identifier_id = Or(ident, ex.identifier_id)]
        ELSE t[i]]

\* updatePaymentStatus, update branch: every row of the order gets the new
\* status; ids given in the call win, otherwise the ids read by the
\* existence check are written back.
UpdateRows(t, o, s, num, ident, ex) ==
    [i \in 1..Len(t) |->
        IF t[i].order_id = o
        THEN [t[i] EXCEPT !.status = s,
                          !.numeric_id = Or(num, ex.numeric_id),
                          !.identifier_id = Or(ident, ex.identifier_id)]
        ELSE t[i]]

\* updatePaymentStatus, insert branch.
InsertRow(t, o, s, num, ident) ==
    Append(t, [order_id |-> o, status |-> s, numeric_id |-> num,
               identifier_id |-> ident])

\* updatePaymentStatus, last fallback: order_id and literal PENDING only,
\* the other columns take the table defaults.
InsertMinimal(t, o) ==
    Append(t, [order_id |-> o, status |-> PENDING, numeric_id |-> NULL,
               identifier_id |-> NULL])

\* Whether the table accepts one more row for order id o.
InsertAllowed(t, o) ==
    /\ Len(t) < MaxRows
    /\ (uniqueOrderId => RowIdx(t, o) = {})

\* db/payments/status.ts updatePaymentStatus: one upsert on conflict order_id;
\* columns absent from the payload keep their stored value.
UpsertRow(t, o, s, num, ident) ==
    IF RowIdx(t, o) = {}
    THEN Append(t, [order_id |-> o, status |-> s, numeric_id |-> num,
                    identifier_id |-> ident])
    ELSE [i \in 1..Len(t) |->
            IF t[i].order_id = o
            THEN [t[i] EXCEPT !.status = s,
                                  !.numeric_id = Or(num, t[i].numeric_id),
                              !.identifier_id = Or(ident, t[i].identifier_id)]
            ELSE t[i]]

\* --------------------------------------------------------- status mapper
\* String.prototype.toLowerCase on the raw status strings of the model.
LowerCase ==
    ("PAID" :> "paid") @@ ("Paid" :> "paid") @@ ("COMPLETED" :> "completed")
    @@ ("Completed" :> "completed") @@ ("SUCCESS" :> "success")
    @@ ("REFUNDED" :> "refunded") @@ ("Refunded" :> "refunded")
    @@ ("VOID" :> "void") @@ ("Void" :> "void") @@ ("CANCELLED" :> "cancelled")
    @@ ("CANCELED" :> "canceled") @@ ("PENDING" :> "pending")
    @@ ("Pending" :> "pending") @@ ("Disputed" :> "disputed")

ToLower(s) == IF s \in DOMAIN LowerCase THEN LowerCase[s] ELSE s

\* The mapper with VOID for the words outside the table.
mapPaymentStatusDefaultVoid(lsStatus) ==
    LET normalizedStatus == ToLower(IF lsStatus = NULL THEN "" ELSE lsStatus)
    IN  CASE normalizedStatus = "pending" -> PENDING
          [] normalizedStatus \in {"paid", "completed", "success"} -> PAID
          [] normalizedStatus = "refunded" -> REFUNDED
          [] OTHER -> VOID

\* webhook/route.ts mapPaymentStatus: case-insensitive, unknown -> PENDING.
mapPaymentStatus(lsStatus) ==
    LET normalizedStatus == ToLower(IF lsStatus = NULL THEN "" ELSE lsStatus)
    IN  CASE normalizedStatus = "pending" -> PENDING
          [] normalizedStatus \in {"paid", "completed", "success"} -> PAID
          [] normalizedStatus \in {"void", "cancelled", "canceled"} -> VOID
          [] normalizedStatus = "refunded" -> REFUNDED
          [] OTHER -> PENDING

\* The mapPaymentStatus of the revision before: a case-sensitive switch with
\* no case for pending and refunded in the void group.
mapPaymentStatusStrict(lsStatus) ==
    CASE lsStatus \in {"paid", "completed", "success"} -> PAID
      [] lsStatus \in {"refunded", "cancelled", "canceled", "void"} -> VOID
      [] OTHER -> PENDING

\* Session-slot webhook handler: case-sensitive switch; the refunded/void
\* branch reads PaymentStatus.VOIDED, which the enum does not define.
mapStatusSlot(status) ==
    CASE status \in {"paid", "completed", "success"} -> PAID
      [] status \in {"refunded", "cancelled", "canceled", "void"} -> UNDEFINED
      [] OTHER -> PENDING

\* ---------------------------------------------------- pending-order index
\* A put that leaves an entry already under the key as it is.
storeOrderIdKeepFirst(store, key, orderId) ==
    [k \in DOMAIN store \cup {key} |->
        IF k \in DOMAIN store THEN store[k]
        ELSE [orderId |-> orderId, age |-> 0, timer |-> "none"]]

\* An entry keeps its order id and its creation time, here as the age since
\* creation; storeOrderId itself starts no timer.
storeOrderId(store, key, orderId) ==
    [k \in DOMAIN store \cup {key} |->
        IF k = key THEN [orderId |-> orderId, age |-> 0, timer |-> "none"]
        ELSE store[k]]

\* The timeout timer that the session-slot revision starts with each put.
startTimer(store, key) == [store EXCEPT ![key].timer = "armed"]

getOrderId(store, key) == IF key \in DOMAIN store THEN store[key].orderId ELSE NULL

removeOrderData(store, key) == [k \in DOMAIN store \ {key} |-> store[k]]

\* cleanupOldEntries: every entry older than maxAgeMs is deleted.
cleanupOldEntries(store, maxAgeMs) ==
    [k \in {j \in DOMAIN store : ~(store[j].age > maxAgeMs)} |-> store[k]]

\* ----------------------------------------------------------- event filter
\* A filter that lets every event through.
IsProcessedEventAny(eventName) == TRUE

\* webhook/route.ts: only order_created, or a webhook that names no event, is
\* processed.
IsProcessedEvent(eventName) == ~(eventName # NULL /\ eventName # "order_created")

\* ------------------------------------------------ pending-record heuristic
\* Rows findPendingPayments may select: status PENDING and no numeric_id.
PendingEligible(t) ==
    {i \in 1..Len(t) : t[i].status = "PENDING" /\ t[i].numeric_id = NULL}

\* findPendingPayments: ORDER BY created_at DESC LIMIT 5, as the set of row
\* positions returned; created_at is the insertion time, so a later position
\* is a greater created_at.
findPendingPayments(t) ==
    LET E == PendingEligible(t)
        n == IF Cardinality(E) < PendingLimit THEN Cardinality(E) ELSE PendingLimit
    IN  CHOOSE R \in SUBSET E :
            /\ Cardinality(R) = n
            /\ \A i \in R : \A j \in E \ R : i >= j

\* The sort the wrong way round: the row of least created_at.
MostRecentOldest(R) == CHOOSE i \in R : \A j \in R : i <= j

\* pendingPayments.sort(by created_at desc)[0]: the row of greatest created_at.
MostRecent(R) == CHOOSE i \in R : \A j \in R : i >= j

\* Some record carries exactly what this webhook writes: the webhook has been
\* applied before.
Applied(t, num, ident, s) ==
    \E i \in 1..Len(t) :
        t[i].numeric_id = num /\ t[i].identifier_id = ident /\ t[i].status = s

\* findPaymentByOrderId: looks in table payments, null when absent or on error.
findPaymentByOrderId(p, o) == o \in p

\* ---------------------------------------------------------------- helpers
InFlight == BagToSet(reqs)

CanStart == BagCardinality(reqs) < MaxInFlight

\* A new request may arrive.
CanReceive == CanStart /\ started < MaxRequests

Start(q) == reqs (+) SetToBag({q})

Finish(q) == reqs (-) SetToBag({q})

Step(q, q2) == (reqs (-) SetToBag({q})) (+) SetToBag({q2})

Respond(kind, code, ok, q, wrote) ==
    [kind |-> kind, code |-> code, ok |-> ok, orderId |-> q.orderId,
     wrote |-> wrote, path |-> q.path, prior |-> q.existing.status,
     raw |-> q.raw, event |-> q.event]

\* ------------------------------------------------------------------- Init
Init ==
    /\ payments_status = <<>>
    /\ payments = {}
    /\ uniqueOrderId \in BOOLEAN
    /\ revision \in {"slot", "keyed"}
    /\ orderStore = [k \in {} |-> NULL]
    /\ issued = 0
    /\ started = 0
    /\ reqs = EmptyBag
    /\ webhookErrorCount = 0
    /\ verificationsCache = [o \in {} |-> NULL]
    /\ providerQueried = [o \in {} |-> 0]
    /\ rateLimitStore = [k \in {} |-> NULL]
    /\ cache = [k \in {} |-> NULL]
    /\ memoCache = [k \in {} |-> 0]
    /\ promises = <<>>
    /\ lastResp = NoResp

\* ---------------------------------------------------------------- actions
\* Time passes: every entry of the index grows older (ages stop at TTL, from
\* where on the entry's time to live has elapsed).
Tick ==
    /\ \E k \in DOMAIN orderStore : orderStore[k].age < TTL
    /\ orderStore' = [k \in DOMAIN orderStore |->
                        [orderStore[k] EXCEPT !.age = IF @ < TTL THEN @ + 1 ELSE @]]
    /\ lastResp' = NoResp
    /\ UNCHANGED <<utilVars, verifyVars, webhookErrorCount, payments_status, payments, uniqueOrderId, revision, issued, started, reqs>>

\* A checkout that registers the order before it looks at the provider's
\* answer.
CheckoutProviderFailStored ==
    /\ CanReceive
    /\ started' = started + 1
    /\ orderStore' = storeOrderId(orderStore, UNDEFINED, NULL)
    /\ lastResp' = Respond("checkout", 500, FALSE, Idle, FALSE)
    /\ UNCHANGED <<utilVars, verifyVars, webhookErrorCount, payments_status, payments, uniqueOrderId, revision, issued, reqs>>

\* The provider call fails or returns no checkout URL / order id: 5xx, no state.
CheckoutProviderFail ==
    /\ CanReceive
    /\ started' = started + 1
    /\ lastResp' = Respond("checkout", 500, FALSE, Idle, FALSE)
    /\ UNCHANGED <<utilVars, verifyVars, webhookErrorCount, payments_status, payments, uniqueOrderId, revision, orderStore, issued, reqs>>

\* Session-slot checkout: the provider returns a fresh order id, the handler
\* registers it under the fixed slot (which restarts the slot's timer) and
\* starts the initial PENDING write.
CheckoutSlotStart ==
    /\ revision = "slot"
    /\ CanReceive
    /\ started' = started + 1
    /\ issued < Len(OrderIds)
    /\ issued' = issued + 1
    /\ \E ident \in Identifiers :
        LET o == OrderIds[issued + 1]
        IN  /\ orderStore' = startTimer(storeOrderId(orderStore, SessionSlot, o),
                                        SessionSlot)
            /\ reqs' = Start([Idle EXCEPT !.kind = "checkout", !.pc = "select",
                                          !.orderId = o, !.status = PENDING,
                                          !.identifier_id = ident])
    /\ lastResp' = NoResp
    /\ UNCHANGED <<utilVars, verifyVars, webhookErrorCount, payments_status, payments, uniqueOrderId, revision>>

\* Current checkout: registers the order under its own id, then awaits the
\* single-statement upsert of db/payments/status.ts.
CheckoutKeyedStart ==
    /\ revision = "keyed"
    /\ CanReceive
    /\ started' = started + 1
    /\ issued < Len(OrderIds)
    /\ issued' = issued + 1
    /\ LET o == OrderIds[issued + 1]
       IN  /\ orderStore' = storeOrderId(orderStore, o, o)
           /\ reqs' = Start([Idle EXCEPT !.kind = "checkout", !.pc = "upsert",
                                         !.orderId = o, !.status = PENDING])
    /\ lastResp' = NoResp
    /\ UNCHANGED <<utilVars, verifyVars, webhookErrorCount, payments_status, payments, uniqueOrderId, revision>>

\* The upsert needs the unique index its ON CONFLICT names; an error is thrown
\* to the handler's catch, which answers 500.
CheckoutKeyedUpsert(q) ==
    /\ q.kind = "checkout"
    /\ q.pc = "upsert"
    /\ \/ /\ uniqueOrderId
          /\ RowIdx(payments_status, q.orderId) # {} \/ Len(payments_status) < MaxRows
          /\ payments_status' = UpsertRow(payments_status, q.orderId, q.status,
                                    q.numeric_id, q.identifier_id)
          /\ lastResp' = Respond("checkout", 200, TRUE, q, TRUE)
       \/ /\ payments_status' = payments_status
          /\ lastResp' = Respond("checkout", 500, FALSE, q, FALSE)
    /\ reqs' = Finish(q)
    /\ UNCHANGED <<utilVars, verifyVars, webhookErrorCount, payments, uniqueOrderId, revision, orderStore, issued, started>>

\* Current webhook handler up to the status write: event filter, identifier
\* extraction, lookup in table payments, pending-record fallback, mapping.
\* A failed or timed-out pending search counts as an empty result.
\* The handler reads no header: the x-signature value the request came with
\* is kept with the request and has no part in what the handler does.
WebhookDeliver(signature) ==
    /\ revision = "keyed"
    /\ CanReceive
    /\ started' = started + 1
    /\ \E in \in WebhookInputs :
        LET identifier_id == Or(in.custom, in.identifier)
        IN  IF ~IsProcessedEvent(in.event)
            THEN /\ lastResp' = Respond("webhook", 200, TRUE,
                                        [Idle EXCEPT !.path = "ignored",
                                                     !.event = in.event], FALSE)
                 /\ reqs' = reqs
                 /\ UNCHANGED webhookErrorCount
            ELSE IF identifier_id = NULL
            THEN /\ lastResp' = Respond("webhook", 400, FALSE, [Idle EXCEPT !.path = "missing"], FALSE)
                 /\ reqs' = reqs
                 /\ webhookErrorCount' = webhookErrorCount + 1
            ELSE /\ lastResp' = NoResp
                 /\ UNCHANGED webhookErrorCount
                 /\ \E pendingOk \in BOOLEAN :
                      LET payment == findPaymentByOrderId(payments, identifier_id)
                          pendingPayments == IF pendingOk
                                             THEN findPendingPayments(payments_status)
                                             ELSE {}
                          orderId == IF payment \/ pendingPayments = {}
                                     THEN identifier_id
                                     ELSE payments_status[MostRecent(pendingPayments)].order_id
                          call == [Idle EXCEPT !.kind = "webhook", !.pc = "select",
                                               !.orderId = orderId,
                                               !.raw = in.raw,
                                               !.signature = signature,
                                               !.event = in.event,
                                               !.status = mapPaymentStatus(in.raw),
                                               !.numeric_id = in.numeric,
                                               !.identifier_id = identifier_id,
                                               !.redelivery =
                                                   Applied(payments_status, in.numeric,
                                                           identifier_id,
                                                           mapPaymentStatus(in.raw)),
                                               !.path = IF payment THEN "payment"
                                                        ELSE IF ~pendingOk THEN "searcherror"
                                                        ELSE IF pendingPayments # {} THEN "pending"
                                                        ELSE "identifier"]
                      IN  reqs' = Start(call)
    /\ UNCHANGED <<utilVars, verifyVars, payments_status, payments, uniqueOrderId, revision, orderStore, issued>>

\* A delivery by the provider, signed with the shared secret.
WebhookReceive == WebhookDeliver(Digest)

\* Session-slot webhook handler up to the status write: the target is
\* whatever order id sits in the fixed slot; an empty slot is answered 400.
SlotWebhookDeliver(in) ==
    /\ revision = "slot"
    /\ CanReceive
    /\ started' = started + 1
    /\ in.custom = NULL /\ in.event = "order_created"
    /\ LET orderId == getOrderId(orderStore, SessionSlot)
           call == [Idle EXCEPT !.kind = "slotwebhook", !.pc = "select",
                                !.orderId = orderId, !.path = "index",
                                !.raw = in.raw,
                                !.status = mapStatusSlot(in.raw),
                                !.numeric_id = in.numeric,
                                !.identifier_id = in.identifier]
       IN  IF orderId = NULL
           THEN /\ lastResp' = Respond("slotwebhook", 400, FALSE,
                                       [Idle EXCEPT !.path = "noorder"], FALSE)
                /\ reqs' = reqs
           ELSE /\ lastResp' = NoResp
                /\ reqs' = Start(call)
    /\ UNCHANGED <<utilVars, verifyVars, webhookErrorCount, payments_status, payments, uniqueOrderId, revision, orderStore, issued>>

SlotWebhookReceive == \E in \in WebhookInputs : SlotWebhookDeliver(in)

\* Statuses a webhook has already settled; the timeout leaves them alone.
Resolved == {PAID, VOID, REFUNDED}

\* Pending-order timeout: when an entry's TTL has elapsed its timer fires once,
\* reads the order's stored status, and either evicts the entry at once
\* (already resolved) or goes on to write TIMEOUT before evicting it.
TimerExpire(k) ==
    /\ CanStart
    /\ k \in DOMAIN orderStore
    /\ orderStore[k].timer = "armed"
    /\ orderStore[k].age >= TTL
    /\ LET o == orderStore[k].orderId
           q == [Idle EXCEPT !.kind = "timer", !.pc = "select", !.orderId = o,
                             !.status = TIMEOUT, !.key = k]
       IN  \E row \in getPaymentStatus(payments_status, o) :
             IF row.status \in Resolved
             THEN /\ orderStore' = removeOrderData(orderStore, k)
                  /\ reqs' = reqs
                  /\ lastResp' = Respond("timer", 0, TRUE, q, FALSE)
             ELSE /\ orderStore' = [orderStore EXCEPT ![k].timer = "fired"]
                  /\ reqs' = Start(q)
                  /\ lastResp' = NoResp
    /\ UNCHANGED <<utilVars, verifyVars, webhookErrorCount, payments_status, payments, uniqueOrderId, revision, issued, started>>

\* updatePaymentStatus, first round-trip: status guard and existence check.
UpsSelect(q) ==
    /\ q.pc = "select"
    /\ reqs' = Step(q, [q EXCEPT !.status = ValidateStatus(q.status),
                                 !.existing = SelectSingle(payments_status, q.orderId),
                                 !.pc = "write"])
    /\ lastResp' = NoResp
    /\ UNCHANGED <<utilVars, verifyVars, webhookErrorCount, payments_status, payments, uniqueOrderId, revision, orderStore, issued, started>>

\* Statuses of a follow-up call that carries no ids.
FollowUpStatuses == {PAID, TIMEOUT}

\* What the caller does once updatePaymentStatus has returned: the handlers
\* answer 200 whatever the result, the timer evicts its entry, and a caller
\* that repeats its call makes the same call once more.
Complete(q, success) ==
    CASE q.kind = "checkout" ->
           /\ reqs' = Finish(q)
           /\ lastResp' = Respond("checkout", 200, TRUE, q, success)
           /\ UNCHANGED orderStore
      [] q.kind = "webhook" ->
           /\ reqs' = Finish(q)
           /\ lastResp' = Respond("webhook", 200, TRUE, q, success)
           /\ UNCHANGED orderStore
      [] q.kind = "slotwebhook" ->
           /\ reqs' = Finish(q)
           /\ lastResp' = Respond("slotwebhook", 200, TRUE, q, success)
           /\ UNCHANGED orderStore
      [] q.kind = "timer" ->
           /\ reqs' = Finish(q)
           /\ orderStore' = removeOrderData(orderStore, q.key)
           /\ lastResp' = Respond("timer", 0, success, q, success)
      [] q.kind = "twice" /\ q.round = 1 ->
           /\ reqs' = Step(q, [q EXCEPT !.pc = q.path, !.round = 2,
                                        !.first = success,
                                        !.existing = NoExisting])
           /\ lastResp' = NoResp
           /\ UNCHANGED orderStore
      [] q.kind = "twice" /\ q.round = 2 ->
           /\ reqs' = Finish(q)
           /\ lastResp' = Respond("twice", 0, q.first /\ success, q, success)
           /\ UNCHANGED orderStore
      [] q.kind = "verify" ->
           /\ reqs' = Step(q, [q EXCEPT !.pc = "written", !.first = success])
           /\ lastResp' = NoResp
           /\ UNCHANGED orderStore
      [] q.kind = "detached" ->
           /\ reqs' = Finish(q)
           /\ lastResp' = NoResp
           /\ UNCHANGED orderStore
      [] q.kind = "call" ->
           /\ reqs' = Finish(q)
           /\ lastResp' = Respond("call", 0, success, q, success)
           /\ UNCHANGED orderStore
      [] q.kind = "then" /\ q.round = 1 ->
           /\ \E s2 \in FollowUpStatuses :
                reqs' = Step(q, [q EXCEPT !.pc = q.path, !.round = 2,
                                          !.first = success, !.status = s2,
                                          !.numeric_id = NULL,
                                          !.identifier_id = NULL,
                                          !.existing = NoExisting])
           /\ lastResp' = NoResp
           /\ UNCHANGED orderStore
      [] q.kind = "then" /\ q.round = 2 ->
           /\ reqs' = Finish(q)
           /\ lastResp' = Respond("then", 0, q.first /\ success, q, success)
           /\ UNCHANGED orderStore

\* updatePaymentStatus, second round-trip: update the existing row, or insert
\* (with the literal-PENDING and minimal fallbacks after a check-constraint
\* rejection); any store error or exception yields {success: false}.
UpsWrite(q) ==
    /\ q.pc = "write"
    /\ \/ /\ q.existing.found
          /\ payments_status' = UpdateRows(payments_status, q.orderId, q.status,
                                    q.numeric_id, q.identifier_id, q.existing)
          /\ Complete(q, TRUE)
       \/ /\ ~q.existing.found
          /\ InsertAllowed(payments_status, q.orderId)
          /\ \/ payments_status' = InsertRow(payments_status, q.orderId, q.status,
                                       q.numeric_id, q.identifier_id)
             \/ payments_status' = InsertRow(payments_status, q.orderId, PENDING,
                                       q.numeric_id, q.identifier_id)
             \/ payments_status' = InsertMinimal(payments_status, q.orderId)
          /\ Complete(q, TRUE)
       \/ /\ payments_status' = payments_status
          /\ Complete(q, FALSE)
    /\ UNCHANGED <<utilVars, verifyVars, webhookErrorCount, payments, uniqueOrderId, revision, issued, started>>

Next ==
    \/ Tick
    \/ CheckoutProviderFail
    \/ CheckoutSlotStart
    \/ CheckoutKeyedStart
    \/ \E q \in InFlight : CheckoutKeyedUpsert(q)
    \/ WebhookReceive
    \/ SlotWebhookReceive
    \/ \E k \in DOMAIN orderStore : TimerExpire(k)
    \/ \E q \in InFlight : UpsSelect(q)
    \/ \E q \in InFlight : UpsWrite(q)

Spec == Init /\ [][Next]_vars

\* ------------------------------------------- the store functions on their own
\* A caller makes one and the same updatePaymentStatus call twice in a row:
\* the check-then-write function of db/payment.ts (entered at "select") or
\* the upsert of db/payments/status.ts (entered at "upsert").
CallTwiceStart ==
    /\ reqs = EmptyBag
    /\ \E o \in {OrderIds[1], OrderIds[2]} : \E s \in {PAID, TIMEOUT} :
       \E num \in NumericIds \cup {NULL} : \E ident \in Identifiers \cup {NULL} :
       \E entry \in {"select", "upsert"} :
         reqs' = Start([Idle EXCEPT !.kind = "twice", !.pc = entry, !.path = entry,
                                    !.round = 1, !.orderId = o, !.status = s,
                                    !.numeric_id = num, !.identifier_id = ident])
    /\ lastResp' = NoResp
    /\ UNCHANGED <<utilVars, verifyVars, webhookErrorCount, payments_status, payments, uniqueOrderId, revision, orderStore,
                   issued, started>>

\* db/payments/status.ts updatePaymentStatus called directly: one upsert, an
\* error is thrown to the caller.
UpsertCall(q) ==
    /\ q.kind \in {"twice", "then"}
    /\ q.pc = "upsert"
    /\ \/ /\ uniqueOrderId
          /\ RowIdx(payments_status, q.orderId) # {} \/ Len(payments_status) < MaxRows
          /\ payments_status' = UpsertRow(payments_status, q.orderId, q.status,
                                    q.numeric_id, q.identifier_id)
          /\ Complete(q, TRUE)
       \/ /\ payments_status' = payments_status
          /\ Complete(q, FALSE)
    /\ UNCHANGED <<utilVars, verifyVars, webhookErrorCount, payments, uniqueOrderId, revision, issued, started>>

CallsNext ==
    \/ CallTwiceStart
    \/ \E q \in InFlight : UpsertCall(q)
    \/ \E q \in InFlight : UpsSelect(q)
    \/ \E q \in InFlight : UpsWrite(q)

SpecCalls == Init /\ [][CallsNext]_vars

\* A caller records a status with the ids it knows, and later makes a second
\* call for the same order with another status and no ids.
CallThenStart ==
    /\ reqs = EmptyBag
    /\ \E o \in {OrderIds[1], OrderIds[2]} :
       \E num \in NumericIds \cup {NULL} : \E ident \in Identifiers \cup {NULL} :
       \E entry \in {"select", "upsert"} :
         reqs' = Start([Idle EXCEPT !.kind = "then", !.pc = entry, !.path = entry,
                                    !.round = 1, !.orderId = o, !.status = PENDING,
                                    !.numeric_id = num, !.identifier_id = ident])
    /\ lastResp' = NoResp
    /\ UNCHANGED <<utilVars, verifyVars, webhookErrorCount, payments_status, payments, uniqueOrderId, revision, orderStore,
                   issued, started>>

SeqNext ==
    \/ CallThenStart
    \/ \E q \in InFlight : UpsertCall(q)
    \/ \E q \in InFlight : UpsSelect(q)
    \/ \E q \in InFlight : UpsWrite(q)

SpecSeq == Init /\ [][SeqNext]_vars

\* -------------------------------------------------- the mapper on its own
\* Raw status strings: the words of the mapping table in lower, upper and
\* mixed case, the empty string, an absent status, and words outside the table.
RawSamples ==
    {"paid", "completed", "success", "refunded", "void", "cancelled", "canceled",
     "pending", "PAID", "COMPLETED", "SUCCESS", "REFUNDED", "VOID", "CANCELLED",
     "CANCELED", "PENDING", "Paid", "Completed", "Refunded", "Void", "Pending",
     "", NULL, "disputed", "Disputed", "unpaid", "voided", "refund", "failed",
     "expired", "paid "}

\* A handler is about to map a raw status, with the mapper of its revision.
MapCall ==
    /\ reqs = EmptyBag
    /\ \E raw \in RawSamples : \E mapper \in {"current", "strict"} :
         reqs' = Start([Idle EXCEPT !.kind = "map", !.pc = "map",
                                    !.status = raw, !.path = mapper])
    /\ lastResp' = NoResp
    /\ UNCHANGED <<utilVars, verifyVars, webhookErrorCount, payments_status, payments, uniqueOrderId, revision, orderStore,
                   issued, started>>

\* The mapper returns.
MapReturn(q) ==
    /\ q.pc = "map"
    /\ reqs' = Finish(q)
    /\ lastResp' = [kind |-> "map", mapper |-> q.path, raw |-> q.status,
                    status |-> IF q.path = "current"
                               THEN mapPaymentStatus(q.status)
                               ELSE mapPaymentStatusStrict(q.status)]
    /\ UNCHANGED <<utilVars, verifyVars, webhookErrorCount, payments_status, payments, uniqueOrderId, revision, orderStore,
                   issued, started>>

MapNext ==
    \/ MapCall
    \/ \E q \in InFlight : MapReturn(q)

SpecMap == Init /\ [][MapNext]_vars

\* The deployment of the current revision alone.
KeyedNext ==
    \/ Tick
    \/ CheckoutProviderFail
    \/ CheckoutKeyedStart
    \/ \E q \in InFlight : CheckoutKeyedUpsert(q)
    \/ WebhookReceive
    \/ \E q \in InFlight : UpsSelect(q)
    \/ \E q \in InFlight : UpsWrite(q)

InitKeyed == Init /\ revision = "keyed"

SpecKeyed == InitKeyed /\ [][KeyedNext]_vars

\* ------------------------------------------------------------ properties
\* The requests a step starts: those it adds at their first position.
NewRequests ==
    {q \in BagToSet(reqs') :
        /\ CopiesIn(q, reqs') > CopiesIn(q, reqs)
        /\ q.pc \in {"select", "upsert"}
        /\ q.round <= 1}

WebhookKinds == {"webhook", "slotwebhook"}

\* The order ids checkout has registered so far.
CheckedOut == {OrderIds[n] : n \in 1..issued}

\* No stored record carries numeric id n.
NoNumericMatch(n) ==
    \A i \in 1..Len(payments_status) : payments_status[i].numeric_id # n

\* Correlation has nothing to go on: no numeric-id match, an empty index and
\* no PENDING record without numeric_id.
ResolutionFails(n) ==
    /\ NoNumericMatch(n)
    /\ DOMAIN orderStore = {}
    /\ PendingEligible(payments_status) = {}

\* C1: updatePaymentStatus is idempotent: when a caller makes the same call
\* twice in a row and both calls report success, the table then holds exactly
\* one record for the order id, and its status is the given value.
C1_Idempotent ==
    [][\A q \in InFlight :
          (/\ q.kind = "twice" /\ q.round = 2 /\ q.first
           /\ reqs' = Finish(q)
           /\ lastResp'.wrote)
          => LET I == RowIdx(payments_status', q.orderId)
             IN  /\ Cardinality(I) = 1
                 /\ \A i \in I : payments_status'[i].status = q.status]_vars

\* C1 witness: a second identical call has just succeeded after a successful
\* first one.
C1_Witness ==
    /\ lastResp.kind = "twice"
    /\ lastResp.ok
    /\ RowIdx(payments_status, lastResp.orderId) # {}

\* C2: in every reachable state, whatever the interleaving of concurrent
\* updatePaymentStatus calls, the table holds at most one record per order id.
C2_OneRecordPerOrder ==
    \A i, j \in 1..Len(payments_status) :
        payments_status[i].order_id = payments_status[j].order_id => i = j

\* C3: a duplicate delivery changes nothing: when a paid webhook is received
\* after it has already been applied to an order (a record carries its numeric
\* id, its identifier and PAID), its write changes no record of the table and
\* adds none.
C3_DuplicateChangesNothing ==
    [][\A q \in InFlight :
          (/\ q.kind = "webhook" /\ q.redelivery /\ q.status = PAID
           /\ q.pc = "write"
           /\ reqs' = Finish(q))
          => payments_status' = payments_status]_vars

\* C4: correlation step 2: a webhook whose numeric id is the numeric_id of a
\* stored record targets that record's order id, whatever the index and the
\* pending records hold.
C4_NumericIdFirst ==
    [][\A q \in NewRequests :
          (q.kind \in WebhookKinds /\ ~NoNumericMatch(q.numeric_id))
          => \E i \in 1..Len(payments_status) :
                /\ payments_status[i].numeric_id = q.numeric_id
                /\ payments_status[i].order_id = q.orderId]_vars

\* C5: correlation step 3: a webhook whose numeric id matches no stored record
\* while the index holds an entry targets an order id held in the index.
C5_IndexSecond ==
    [][\A q \in NewRequests :
          (/\ q.kind \in WebhookKinds
           /\ NoNumericMatch(q.numeric_id)
           /\ DOMAIN orderStore # {})
          => \E k \in DOMAIN orderStore : orderStore[k].orderId = q.orderId]_vars

\* C6: correlation step 4: when the pending search returns and at least one
\* PENDING record without numeric_id exists, the current handler (which
\* consults neither a numeric-id lookup nor the index) targets the record of
\* greatest created_at among them.
C6_MostRecentPending ==
    [][\A q \in NewRequests :
          (/\ q.kind = "webhook"
           /\ q.path # "searcherror"
           /\ PendingEligible(payments_status) # {})
          => \E i \in PendingEligible(payments_status) :
                /\ q.orderId = payments_status[i].order_id
                /\ \A j \in PendingEligible(payments_status) : j <= i]_vars

\* C6 witness: a webhook has been resolved by the heuristic to the newer of
\* two PENDING records without numeric_id.
C6_Witness ==
    \E q \in InFlight :
        /\ q.kind = "webhook" /\ q.pc = "select" /\ q.path = "pending"
        /\ Cardinality(PendingEligible(payments_status)) >= 2
        /\ q.orderId = payments_status[Len(payments_status)].order_id
        /\ q.orderId # payments_status[1].order_id

\* C7: on resolution failure the reconciler resolves no target: the step that
\* receives the webhook starts no status write, leaves every record as it was
\* and answers 2xx with an error indication.
C7_ResolutionFailure ==
    [][(\/ \E q \in NewRequests :
             q.kind \in WebhookKinds /\ ResolutionFails(q.numeric_id)
        \/ /\ lastResp'.kind \in WebhookKinds
           /\ lastResp'.path = "noorder"
           /\ \A n \in NumericIds : ResolutionFails(n))
       => /\ reqs' = reqs
          /\ payments_status' = payments_status
          /\ lastResp'.code \in 200..299
          /\ ~lastResp'.ok]_vars

\* C8: a checked-out order that no webhook has touched and that is still
\* PENDING has its timeout ahead of it: its index entry with a timer armed or
\* running, or a request for it still in flight.  (Without that it stays
\* PENDING for ever.)
C8_PendingTimesOut ==
    \A i \in 1..Len(payments_status) :
        (/\ payments_status[i].order_id \in CheckedOut
         /\ payments_status[i].status = PENDING
         /\ payments_status[i].numeric_id = NULL)
        => \/ \E k \in DOMAIN orderStore :
                /\ orderStore[k].orderId = payments_status[i].order_id
                /\ orderStore[k].timer \in {"armed", "fired"}
           \/ \E q \in InFlight : q.orderId = payments_status[i].order_id

\* C9: on timer expiry TIMEOUT is written only if the order's stored status is
\* not PAID, VOID or REFUNDED; the entry is removed when the write returns,
\* whatever its outcome; and so no entry whose TTL has elapsed stays in the
\* index without its expiry due or running.
C9_TimerExpiry ==
    [][/\ \A q \in NewRequests :
             q.kind = "timer"
             => \E row \in getPaymentStatus(payments_status, q.orderId) :
                   row.status \notin Resolved
       /\ \A q \in InFlight :
             (q.kind = "timer" /\ q.pc = "write" /\ reqs' = Finish(q))
             => q.key \notin DOMAIN orderStore'
       /\ \A k \in DOMAIN orderStore' :
             orderStore'[k].age >= TTL
             => orderStore'[k].timer \in {"armed", "fired"}]_vars

\* C10: after a webhook that updated order O's status has completed, the
\* index holds no entry for O.
C10_EntryConsumed ==
    (lastResp.kind \in WebhookKinds /\ lastResp.wrote)
    => \A k \in DOMAIN orderStore : orderStore[k].orderId # lastResp.orderId

\* A caller of updatePaymentStatus records TIMEOUT for the first order, with
\* no ids.
TimeoutCallStart ==
    /\ CanReceive
    /\ started' = started + 1
    /\ reqs' = Start([Idle EXCEPT !.kind = "call", !.pc = "select",
                                  !.orderId = OrderIds[1], !.status = TIMEOUT])
    /\ lastResp' = NoResp
    /\ UNCHANGED <<utilVars, verifyVars, webhookErrorCount, payments_status, payments, uniqueOrderId, revision, orderStore,
                   issued>>

\* The webhook handler of the current revision next to that caller.
TerminalNext ==
    \/ TimeoutCallStart
    \/ WebhookReceive
    \/ \E q \in InFlight : UpsSelect(q)
    \/ \E q \in InFlight : UpsWrite(q)

SpecTerminal == InitKeyed /\ [][TerminalNext]_vars

\* ------------------------------------ the time limits of the current handler
\* The body does not parse within 5 s (or is malformed): answered 400 before
\* anything else is done.
WebhookParseTimeout ==
    /\ revision = "keyed"
    /\ CanReceive
    /\ started' = started + 1
    /\ lastResp' = Respond("webhook", 400, FALSE, [Idle EXCEPT !.path = "parse"],
                           FALSE)
    /\ UNCHANGED <<utilVars, verifyVars, webhookErrorCount, payments_status, payments, uniqueOrderId,
                   revision, orderStore, issued, reqs>>

\* updatePaymentStatus does not return within 10 s: the handler answers 200
\* with success false; the call it no longer awaits runs on.
WebhookWriteTimeout(q) ==
    /\ q.kind = "webhook"
    /\ q.pc \in {"select", "write"}
    /\ reqs' = Step(q, [q EXCEPT !.kind = "detached"])
    /\ lastResp' = Respond("webhook", 200, FALSE, [q EXCEPT !.path = "timeout"],
                           FALSE)
    /\ UNCHANGED <<utilVars, verifyVars, webhookErrorCount, payments_status, payments, uniqueOrderId,
                   revision, orderStore, issued, started>>

\* The current handler with its time limits; the limits on the lookup and on
\* the pending search end as a failed lookup and a failed search do.
TimeoutNext ==
    \/ WebhookParseTimeout
    \/ WebhookReceive
    \/ \E q \in InFlight : WebhookWriteTimeout(q)
    \/ \E q \in InFlight : UpsSelect(q)
    \/ \E q \in InFlight : UpsWrite(q)

SpecTimeouts == InitKeyed /\ [][TimeoutNext]_vars

\* --------------------------------- the webhook handler of the revision before
\* The handler that the current one grew out of: the event name is read from
\* the header only, the lookup and the pending search are awaited without a
\* try of their own, and the handler's one catch answers 500.
\* findPaymentByOrderId swallows its errors; findPendingPayments rethrows.
DraftWebhookReceive ==
    /\ revision = "keyed"
    /\ CanReceive
    /\ started' = started + 1
    /\ \E in \in WebhookInputs :
        LET identifier_id == Or(in.custom, in.identifier)
        IN  IF in.event # "order_created"
            THEN /\ lastResp' = Respond("webhook", 200, TRUE,
                                        [Idle EXCEPT !.path = "ignored",
                                                     !.event = in.event], FALSE)
                 /\ reqs' = reqs
            ELSE IF identifier_id = NULL
            THEN /\ lastResp' = Respond("webhook", 400, FALSE,
                                        [Idle EXCEPT !.path = "missing"], FALSE)
                 /\ reqs' = reqs
            ELSE \E pendingOk \in BOOLEAN :
                   LET payment == findPaymentByOrderId(payments, identifier_id)
                       pendingPayments == findPendingPayments(payments_status)
                       orderId == IF payment \/ pendingPayments = {}
                                  THEN identifier_id
                                  ELSE payments_status[MostRecent(pendingPayments)].order_id
                       call == [Idle EXCEPT !.kind = "webhook", !.pc = "select",
                                            !.orderId = orderId,
                                            !.raw = in.raw,
                                            !.event = in.event,
                                            !.status = mapPaymentStatusStrict(in.raw),
                                            !.numeric_id = in.numeric,
                                            !.identifier_id = identifier_id,
                                            !.path = IF payment THEN "payment"
                                                     ELSE IF pendingPayments # {}
                                                     THEN "pending"
                                                     ELSE "identifier"]
                   IN  IF payment \/ pendingOk
                       THEN /\ lastResp' = NoResp
                            /\ reqs' = Start(call)
                       ELSE /\ lastResp' = Respond("webhook", 500, FALSE,
                                                   [call EXCEPT !.path = "searcherror"],
                                                   FALSE)
                            /\ reqs' = reqs
    /\ UNCHANGED <<utilVars, verifyVars, webhookErrorCount, payments_status, payments, uniqueOrderId,
                   revision, orderStore, issued>>

DraftNext ==
    \/ DraftWebhookReceive
    \/ \E q \in InFlight : UpsSelect(q)
    \/ \E q \in InFlight : UpsWrite(q)

SpecDraft == InitKeyed /\ [][DraftNext]_vars

\* ------------------------------------------------------- verify endpoint
\* Status strings the provider reports for an order.
VerifyRawStatuses == {"paid", "refunded"}

\* payments/verify/route.ts: exact comparison, refunded in the void group.
mapVerifyStatus(status) ==
    IF status \in {"paid", "completed", "success"} THEN PAID
    ELSE IF status \in {"refunded", "cancelled", "canceled", "void"} THEN VOID
    ELSE PENDING

\* The verify handler with the cache: only paid maps to PAID.
mapVerifyStatusCached(status) ==
    IF status = "paid" THEN PAID
    ELSE IF status \in {"refunded", "cancelled", "canceled", "void"} THEN VOID
    ELSE PENDING

VerifyResp(code, ok, q, fromCache, mappedStatus, wrote) ==
    [kind |-> "verify", code |-> code, ok |-> ok, orderId |-> q.orderId,
     path |-> q.path, raw |-> q.raw, mappedStatus |-> mappedStatus,
     fromCache |-> fromCache, wrote |-> wrote, requery |-> q.requery]

\* The verify handler with the cache, up to the provider call: a cached
\* verification younger than the interval is returned as it is.
VerifyReceive ==
    /\ CanReceive
    /\ started' = started + 1
    /\ \E o \in {OrderIds[1]} :
         LET q == [Idle EXCEPT !.kind = "verify", !.pc = "provider",
                               !.orderId = o, !.path = "cached"]
         IN  IF /\ o \in DOMAIN verificationsCache
                /\ verificationsCache[o].age < MIN_VERIFICATION_INTERVAL
             THEN /\ lastResp' = VerifyResp(200, TRUE, q, TRUE,
                                            verificationsCache[o].mappedStatus,
                                            verificationsCache[o].wrote)
                  /\ reqs' = reqs
             ELSE /\ lastResp' = NoResp
                  /\ reqs' = Start(q)
    /\ UNCHANGED <<utilVars, verifyVars, webhookErrorCount, payments_status, payments,
                   uniqueOrderId, revision, orderStore, issued>>

\* The current verify handler, up to the provider call: it keeps no cache.
VerifyDirectReceive ==
    /\ CanReceive
    /\ started' = started + 1
    /\ \E o \in {OrderIds[1]} :
         reqs' = Start([Idle EXCEPT !.kind = "verify", !.pc = "provider",
                                    !.orderId = o, !.path = "direct"])
    /\ lastResp' = NoResp
    /\ UNCHANGED <<utilVars, verifyVars, webhookErrorCount, payments_status, payments,
                   uniqueOrderId, revision, orderStore, issued>>

\* The provider is queried: the call throws or returns no data (answered
\* 500), or it returns the order, whose status is mapped and handed to
\* updatePaymentStatus with both ids.
VerifyProvider(q) ==
    /\ q.kind = "verify"
    /\ q.pc = "provider"
    /\ LET o == q.orderId
           soon == /\ o \in DOMAIN providerQueried
                   /\ providerQueried[o] < MIN_VERIFICATION_INTERVAL
           asked == [q EXCEPT !.requery = soon]
       IN  /\ providerQueried' =
                 IF q.path = "cached"
                 THEN [k \in DOMAIN providerQueried \cup {o} |->
                          IF k = o THEN 0 ELSE providerQueried[k]]
                 ELSE providerQueried
           /\ \/ /\ reqs' = Finish(q)
                 /\ lastResp' = VerifyResp(500, FALSE, asked, FALSE, NULL, FALSE)
              \/ \E status \in VerifyRawStatuses :
                 \E num \in NumericIds : \E ident \in Identifiers :
                   /\ reqs' = Step(q, [asked EXCEPT
                                         !.pc = "select", !.raw = status,
                                         !.status = IF q.path = "cached"
                                                    THEN mapVerifyStatusCached(status)
                                                    ELSE mapVerifyStatus(status),
                                         !.numeric_id = num,
                                         !.identifier_id = ident])
                   /\ lastResp' = NoResp
    /\ UNCHANGED <<utilVars, verificationsCache, webhookErrorCount, payments_status, payments,
                   uniqueOrderId, revision, orderStore, issued, started>>

\* updatePaymentStatus has returned (its result is not looked at).  The
\* current handler answers; the handler with the cache stores its result
\* under the time the request began, and answers at once when the mapped
\* status is PAID.
VerifyWritten(q) ==
    /\ q.kind = "verify"
    /\ q.pc = "written"
    /\ verificationsCache' =
          IF q.path = "cached"
          THEN [k \in DOMAIN verificationsCache \cup {q.orderId} |->
                   IF k = q.orderId
                   THEN [age |-> q.elapsed, mappedStatus |-> q.status,
                         wrote |-> q.first]
                   ELSE verificationsCache[k]]
          ELSE verificationsCache
    /\ IF q.path = "cached" /\ q.status # PAID
       THEN /\ reqs' = Step(q, [q EXCEPT !.pc = "check"])
            /\ lastResp' = NoResp
       ELSE /\ reqs' = Finish(q)
            /\ lastResp' = VerifyResp(200, TRUE, q, FALSE, q.status, q.first)
    /\ UNCHANGED <<utilVars, providerQueried, webhookErrorCount, payments_status, payments,
                   uniqueOrderId, revision, orderStore, issued, started>>

\* The handler with the cache reads the stored status back for its log; a
\* store error thrown by getPaymentStatus reaches the catch.
VerifyCheck(q) ==
    /\ q.kind = "verify"
    /\ q.pc = "check"
    /\ reqs' = Finish(q)
    /\ \/ lastResp' = VerifyResp(200, TRUE, q, FALSE, q.status, q.first)
       \/ lastResp' = VerifyResp(500, FALSE, q, FALSE, NULL, q.first)
    /\ UNCHANGED <<utilVars, verifyVars, webhookErrorCount, payments_status, payments,
                   uniqueOrderId, revision, orderStore, issued, started>>

\* Time passes for the verify endpoint (ages stop at the interval).
Older(n) == IF n < MIN_VERIFICATION_INTERVAL THEN n + 1 ELSE n

VerifyTick ==
    /\ \/ \E o \in DOMAIN verificationsCache :
             verificationsCache[o].age < MIN_VERIFICATION_INTERVAL
       \/ \E o \in DOMAIN providerQueried :
             providerQueried[o] < MIN_VERIFICATION_INTERVAL
    /\ verificationsCache' =
          [o \in DOMAIN verificationsCache |->
              [verificationsCache[o] EXCEPT !.age = Older(@)]]
    /\ providerQueried' = [o \in DOMAIN providerQueried |-> Older(providerQueried[o])]
    /\ reqs' = BagOfAll(LAMBDA q : IF q.kind = "verify"
                                   THEN [q EXCEPT !.elapsed = Older(@)] ELSE q,
                        reqs)
    /\ lastResp' = NoResp
    /\ UNCHANGED <<utilVars, webhookErrorCount, payments_status, payments, uniqueOrderId,
                   revision, orderStore, issued, started>>

VerifyNext ==
    \/ VerifyReceive
    \/ VerifyDirectReceive
    \/ VerifyTick
    \/ \E q \in InFlight : VerifyProvider(q)
    \/ \E q \in InFlight : UpsSelect(q)
    \/ \E q \in InFlight : UpsWrite(q)
    \/ \E q \in InFlight : VerifyWritten(q)
    \/ \E q \in InFlight : VerifyCheck(q)

SpecVerify == InitKeyed /\ [][VerifyNext]_vars

\* ------------------------------------------ services/paymentService.ts retry
\* How one invocation of fn ends: it resolves, or it rejects with an axios
\* error that has no response, with one whose response is 5xx or 4xx, or with
\* an error that is no axios error.
AttemptOutcomes == {"ok", "network", "5xx", "4xx", "other"}

\* A classification that retries after every error.
ShouldRetryAny(error) == TRUE

\* isNetworkError || isServerError.
ShouldRetry(error) ==
    LET isAxiosError == error \in {"network", "5xx", "4xx"}
        hasResponse == error \in {"5xx", "4xx"}
        isNetworkError == ~isAxiosError \/ ~hasResponse
        isServerError == isAxiosError /\ hasResponse /\ error = "5xx"
    IN  isNetworkError \/ isServerError

\* retryWithBackoff(fn) is called with the default maxRetries.
RetryStart ==
    /\ reqs = EmptyBag
    /\ reqs' = Start([Idle EXCEPT !.kind = "retry", !.pc = "call"])
    /\ lastResp' = NoResp
    /\ UNCHANGED <<utilVars, verifyVars, webhookErrorCount, payments_status, payments, uniqueOrderId,
                   revision, orderStore, issued, started>>

\* One pass of the loop: fn is invoked; it returns, or the catch counts the
\* failure and rethrows it or goes to sleep before the next pass.
RetryAttempt(q) ==
    /\ q.kind = "retry"
    /\ q.pc = "call"
    /\ \E outcome \in AttemptOutcomes :
         LET log == Append(q.log, outcome)
             retries == q.retries + 1
         IN  IF outcome = "ok"
             THEN /\ reqs' = Finish(q)
                  /\ lastResp' = [kind |-> "retry", outcome |-> "returned",
                                  error |-> NULL, log |-> log]
             ELSE IF retries > DefaultMaxRetries \/ ~ShouldRetry(outcome)
             THEN /\ reqs' = Finish(q)
                  /\ lastResp' = [kind |-> "retry", outcome |-> "thrown",
                                  error |-> outcome, log |-> log]
             ELSE /\ reqs' = Step(q, [q EXCEPT !.pc = "sleep", !.log = log,
                                               !.retries = retries])
                  /\ lastResp' = NoResp
    /\ UNCHANGED <<utilVars, verifyVars, webhookErrorCount, payments_status, payments, uniqueOrderId,
                   revision, orderStore, issued, started>>

\* The backoff delay has passed.
RetryWake(q) ==
    /\ q.kind = "retry"
    /\ q.pc = "sleep"
    /\ reqs' = Step(q, [q EXCEPT !.pc = "call"])
    /\ lastResp' = NoResp
    /\ UNCHANGED <<utilVars, verifyVars, webhookErrorCount, payments_status, payments, uniqueOrderId,
                   revision, orderStore, issued, started>>

RetryNext ==
    \/ RetryStart
    \/ \E q \in InFlight : RetryAttempt(q)
    \/ \E q \in InFlight : RetryWake(q)

SpecRetry == Init /\ [][RetryNext]_vars

\* ------------------------------- webhook/route.ts, signature-checking handler
\* crypto.timingSafeEqual: whether two buffers of one length are equal; it
\* throws when their lengths differ.
timingSafeEqual(a, b) ==
    IF a.len # b.len THEN "throws" ELSE IF a = b THEN "true" ELSE "false"

\* verifyWebhookSignature with LEMONSQUEEZY_WEBHOOK_SECRET configured: the
\* header value is compared with the hex digest of the body.
verifyWebhookSignature(signature) == timingSafeEqual(signature, Digest)

\* Request bodies: text that is no JSON, JSON that fails the event schema,
\* and an event.
SignedBodies == {"malformed", "invalid", "event"}

SignedResp(code, error, signature, event) ==
    [kind |-> "signed", code |-> code, ok |-> code = 200, error |-> error,
     signature |-> signature, event |-> event]

\* The handler that checks x-signature: the header is required and verified
\* before the body is parsed; a PaymentServiceError is answered with its own
\* status and code, anything else thrown with 500 INTERNAL_SERVER_ERROR.  The
\* event handlers only log.
SignedWebhookReceive ==
    /\ CanReceive
    /\ started' = started + 1
    /\ \E signature \in Signatures \cup {NoSignature}, body \in SignedBodies,
          event \in EventNames, product \in BOOLEAN :
         lastResp' =
            IF signature = NoSignature
            THEN SignedResp(401, "MISSING_SIGNATURE", signature, NULL)
            ELSE IF verifyWebhookSignature(signature) = "throws"
            THEN SignedResp(500, "INTERNAL_SERVER_ERROR", signature, NULL)
            ELSE IF verifyWebhookSignature(signature) = "false"
            THEN SignedResp(401, "INVALID_SIGNATURE", signature, NULL)
            ELSE IF body = "malformed"
            THEN SignedResp(500, "INTERNAL_SERVER_ERROR", signature, NULL)
            ELSE IF body = "invalid"
            THEN SignedResp(400, "INVALID_PAYLOAD", signature, NULL)
            ELSE IF event = "order_created" /\ ~product
            THEN SignedResp(403, "INVALID_PRODUCT", signature, event)
            ELSE SignedResp(200, NULL, signature, event)
    /\ UNCHANGED <<utilVars, verifyVars, webhookErrorCount, payments_status, payments,
                   uniqueOrderId, revision, orderStore, issued, reqs>>

\* Webhooks arrive at the current handler with any x-signature header or with
\* none.
WebhookReceiveAnySignature == \E signature \in Signatures \cup {NoSignature} : WebhookDeliver(signature)

SignedNext ==
    \/ WebhookReceiveAnySignature
    \/ SignedWebhookReceive
    \/ \E q \in InFlight : UpsSelect(q)
    \/ \E q \in InFlight : UpsWrite(q)

SpecSigned == InitKeyed /\ [][SignedNext]_vars

\* ------------------------------------------------- middleware.ts, lib/auth.ts
\* Request paths under /api/, as their segments.
WebhookPath == <<"api", "payments", "webhook">>

TokenPath == <<"api", "auth", "token">>

EarlierWebhookPath == <<"api", "webhooks", "lemonsqueezy">>

Paths ==
    {WebhookPath, TokenPath, EarlierWebhookPath, <<"api", "checkout">>,
     <<"api", "payments", "verify">>, <<"api", "payments", "status", "O1">>}

Methods == {"GET", "POST", "OPTIONS"}

\* Authorization headers: absent, another scheme, and Bearer with a token
\* that verifies, one signed with another key, and one past its expiry.
AuthHeaders ==
    {[scheme |-> NULL, token |-> NULL], [scheme |-> "Basic", token |-> "valid"],
     [scheme |-> "Bearer", token |-> "valid"],
     [scheme |-> "Bearer", token |-> "forged"],
     [scheme |-> "Bearer", token |-> "expired"]}

\* pathname.startsWith('/api/payments/status/').
IsStatusPath(pathname) ==
    Len(pathname) >= 4 /\ SubSeq(pathname, 1, 3) = <<"api", "payments", "status">>

\* verifyAuth: true when jose.jwtVerify resolves; a rejection is caught and
\* rethrown as Error('Invalid token '), so the function never returns false.
verifyAuth(token) == IF token = "valid" THEN "true" ELSE "throws"

\* What the middleware makes of a request that needs a token: 401 without a
\* Bearer header, on to the route handler when the token verifies; the error
\* verifyAuth throws is not caught, and the request ends as a 500.
CheckToken(authHeader) ==
    IF authHeader.scheme # "Bearer" THEN [code |-> 401, next |-> FALSE]
    ELSE IF verifyAuth(authHeader.token) = "throws" THEN [code |-> 500, next |-> FALSE]
    ELSE IF verifyAuth(authHeader.token) # "true" THEN [code |-> 401, next |-> FALSE]
    ELSE [code |-> 0, next |-> TRUE]

\* middleware.ts: the preflight answer, the cache headers for GET on the
\* status paths, the public endpoints, then the token check.
middleware(method, pathname, authHeader) ==
    IF method = "OPTIONS" THEN [code |-> 200, next |-> FALSE]
    ELSE IF method = "GET" /\ IsStatusPath(pathname) THEN [code |-> 0, next |-> TRUE]
    ELSE IF pathname = WebhookPath \/ pathname = TokenPath
    THEN [code |-> 0, next |-> TRUE]
    ELSE CheckToken(authHeader)

\* The middleware of the revision before: no branch for the status paths,
\* and the webhook endpoint under another path.
middlewareEarlier(method, pathname, authHeader) ==
    IF method = "OPTIONS" THEN [code |-> 200, next |-> FALSE]
    ELSE IF pathname = EarlierWebhookPath \/ pathname = TokenPath
    THEN [code |-> 0, next |-> TRUE]
    ELSE CheckToken(authHeader)

MiddlewareResp(earlier, method, pathname, authHeader, result) ==
    [kind |-> "middleware", earlier |-> earlier, method |-> method,
     pathname |-> pathname, authHeader |-> authHeader, code |-> result.code,
     next |-> result.next]

\* A request under /api/ passes the middleware.
MiddlewareRequest ==
    /\ CanReceive
    /\ started' = started + 1
    /\ \E method \in Methods, pathname \in Paths, authHeader \in AuthHeaders :
         lastResp' = MiddlewareResp(FALSE, method, pathname, authHeader,
                                    middleware(method, pathname, authHeader))
    /\ UNCHANGED <<utilVars, verifyVars, webhookErrorCount, payments_status, payments,
                   uniqueOrderId, revision, orderStore, issued, reqs>>

\* The same under the middleware of the revision before.
EarlierMiddlewareRequest ==
    /\ CanReceive
    /\ started' = started + 1
    /\ \E method \in Methods, pathname \in Paths, authHeader \in AuthHeaders :
         lastResp' = MiddlewareResp(TRUE, method, pathname, authHeader,
                                    middlewareEarlier(method, pathname, authHeader))
    /\ UNCHANGED <<utilVars, verifyVars, webhookErrorCount, payments_status, payments,
                   uniqueOrderId, revision, orderStore, issued, reqs>>

MiddlewareNext ==
    \/ MiddlewareRequest
    \/ EarlierMiddlewareRequest

SpecMiddleware == InitKeyed /\ [][MiddlewareNext]_vars

\* ------------------------------------------- findPendingPayments, on its own
\* The values of enum PaymentStatus in types/payment.ts.
TypesPaymentStatus ==
    [PENDING |-> "pending", PAID |-> "paid", VOID |-> "void", REFUNDED |-> "refunded"]

\* The values PaymentStatus.PENDING has in the two declarations of the enum.
PendingValues == {PENDING, TypesPaymentStatus.PENDING}

\* Order ids as the provider issues them, one per checkout.
PendingOrderIds == <<"P1", "P2", "P3", "P4", "P5", "P6">>

\* The rows of a query result, greatest created_at first.
OrderDesc(R) ==
    CHOOSE rows \in [1..Cardinality(R) -> R] :
        \A i, j \in 1..Cardinality(R) : i < j => rows[i] > rows[j]

\* Checkout's updatePaymentStatus(orderId, PaymentStatus.PENDING) for a new
\* order: the upsert inserts a row that holds the enum's value and no ids.
PendingCheckoutWrite ==
    /\ Len(payments_status) < Len(PendingOrderIds)
    /\ \E status \in PendingValues :
         payments_status' = UpsertRow(payments_status,
                                      PendingOrderIds[Len(payments_status) + 1],
                                      status, NULL, NULL)
    /\ lastResp' = NoResp
    /\ UNCHANGED <<utilVars, verifyVars, webhookErrorCount, payments, uniqueOrderId,
                   revision, orderStore, issued, started, reqs>>

\* A webhook's write on a row: a resolved status and the numeric id.
PendingResolve ==
    /\ \E i \in 1..Len(payments_status) :
         /\ payments_status[i].numeric_id = NULL
         /\ payments_status' = UpsertRow(payments_status, payments_status[i].order_id,
                                         PAID, CHOOSE n \in NumericIds : TRUE, NULL)
    /\ lastResp' = NoResp
    /\ UNCHANGED <<utilVars, verifyVars, webhookErrorCount, payments, uniqueOrderId,
                   revision, orderStore, issued, started, reqs>>

\* findPendingPayments is called and returns its rows.
PendingSearch ==
    /\ lastResp' = [kind |-> "pending",
                    rows |-> OrderDesc(findPendingPayments(payments_status))]
    /\ UNCHANGED <<utilVars, verifyVars, webhookErrorCount, payments_status, payments,
                   uniqueOrderId, revision, orderStore, issued, started, reqs>>

PendingNext ==
    \/ PendingCheckoutWrite
    \/ PendingResolve
    \/ PendingSearch

SpecPending == InitKeyed /\ [][PendingNext]_vars

\* ------------------------------------------------------ GET payment status
\* The orderId query parameter: absent, or an order id.
StatusQueryIds == {NULL} \cup {OrderIds[i] : i \in DOMAIN OrderIds} \cup Identifiers

StatusResp(code, error, orderId, status) ==
    [kind |-> "status", code |-> code, ok |-> code = 200, error |-> error,
     orderId |-> orderId, status |-> status]

\* GET: 400 without orderId; otherwise getPaymentStatus is awaited, and its
\* row is answered 200 with the row's status, no row 404, an error of the
\* query 500.  Nothing is written.
StatusGet ==
    /\ CanReceive
    /\ started' = started + 1
    /\ \E orderId \in StatusQueryIds, queryOk \in BOOLEAN :
         IF orderId = NULL
         THEN lastResp' = StatusResp(400, "MISSING_ORDER_ID", orderId, NULL)
         ELSE IF ~queryOk
         THEN lastResp' = StatusResp(500, "STATUS_CHECK_FAILED", orderId, NULL)
         ELSE \E paymentStatus \in getPaymentStatus(payments_status, orderId) :
                IF paymentStatus = NoRow
                THEN lastResp' = StatusResp(404, "STATUS_NOT_FOUND", orderId, NULL)
                ELSE lastResp' = StatusResp(200, NULL, orderId, paymentStatus.status)
    /\ UNCHANGED <<utilVars, verifyVars, webhookErrorCount, payments_status, payments,
                   uniqueOrderId, revision, orderStore, issued, reqs>>

StatusNext ==
    \/ CheckoutKeyedStart
    \/ \E q \in InFlight : CheckoutKeyedUpsert(q)
    \/ WebhookReceive
    \/ \E q \in InFlight : UpsSelect(q)
    \/ \E q \in InFlight : UpsWrite(q)
    \/ StatusGet

SpecStatus == InitKeyed /\ [][StatusNext]_vars

\* --------------------------------------------- pending-order index, on its own
\* Keys of the index: the fixed slot and the order ids.
IndexKeys == {SessionSlot} \cup {OrderIds[i] : i \in DOMAIN OrderIds}

IndexResp(kind, key, orderId, result, maxAgeMs) ==
    [kind |-> kind, key |-> key, orderId |-> orderId, result |-> result,
     maxAgeMs |-> maxAgeMs]

\* storeOrderId: under the given key in the session-slot revision, under the
\* order id itself in the current one.
IndexPut ==
    /\ \E key \in IndexKeys, i \in DOMAIN OrderIds :
         /\ revision = "keyed" => key = OrderIds[i]
         /\ orderStore' = storeOrderId(orderStore, key, OrderIds[i])
         /\ lastResp' = IndexResp("put", key, OrderIds[i], NULL, 0)
    /\ UNCHANGED <<utilVars, verifyVars, webhookErrorCount, payments_status, payments,
                   uniqueOrderId, revision, issued, started, reqs>>

\* getOrderId.
IndexGet ==
    /\ \E key \in IndexKeys :
         lastResp' = IndexResp("get", key, NULL, getOrderId(orderStore, key), 0)
    /\ UNCHANGED <<utilVars, verifyVars, webhookErrorCount, payments_status, payments,
                   uniqueOrderId, revision, orderStore, issued, started, reqs>>

\* removeOrderData.
IndexRemove ==
    /\ \E key \in IndexKeys :
         /\ orderStore' = removeOrderData(orderStore, key)
         /\ lastResp' = IndexResp("remove", key, NULL, NULL, 0)
    /\ UNCHANGED <<utilVars, verifyVars, webhookErrorCount, payments_status, payments,
                   uniqueOrderId, revision, issued, started, reqs>>

\* cleanupOldEntries(maxAgeMs).
IndexCleanup ==
    /\ \E maxAgeMs \in 0..TTL :
         /\ orderStore' = cleanupOldEntries(orderStore, maxAgeMs)
         /\ lastResp' = IndexResp("cleanup", NULL, NULL, NULL, maxAgeMs)
    /\ UNCHANGED <<utilVars, verifyVars, webhookErrorCount, payments_status, payments,
                   uniqueOrderId, revision, issued, started, reqs>>

IndexNext ==
    \/ IndexPut
    \/ IndexGet
    \/ IndexRemove
    \/ IndexCleanup
    \/ Tick

SpecIndex == Init /\ [][IndexNext]_vars

\* ------------------------------------ session-slot revision, settled orders
\* Webhooks of an order that was refunded or voided, next to a paid one.
SettledInputs ==
    [custom : {NULL}, identifier : Identifiers, numeric : NumericIds,
     raw : {"paid", "refunded", "void"}, event : {"order_created"}]

SlotWebhookReceiveSettled == \E in \in SettledInputs : SlotWebhookDeliver(in)

InitSlot == Init /\ revision = "slot"

SlotNext ==
    \/ CheckoutSlotStart
    \/ SlotWebhookReceiveSettled
    \/ \E q \in InFlight : UpsSelect(q)
    \/ \E q \in InFlight : UpsWrite(q)

SpecSlot == InitSlot /\ [][SlotNext]_vars

\* ------------------------------------------------- utils/rate-limit.ts
\* The options the limiter is created with; the window in ticks of the clock.
RateLimitOptions == [limit |-> 2, windowMs |-> TTL + 1]

\* Keys the key generator yields: one per client address.
RateLimitKeys == {"rate-limit:10.0.0.1", "rate-limit:10.0.0.2"}

\* A limiter that lets one request more through.
RateLimitExceededLate(count, limit) == count > limit + 1

\* record.count > limit.
RateLimitExceeded(count, limit) == count > limit

\* record.resetTime <= now, with left = resetTime - now.
WindowOver(record) == record.left <= 0

RateLimitResp(key, code, next) ==
    [kind |-> "ratelimit", key |-> key, code |-> code, next |-> next]

\* rateLimitMiddleware: the record of the key, or a new one when there is
\* none or its window is over, is counted up and stored; above the limit the
\* answer is 429, otherwise next() is called.  passed counts the calls of
\* next() in the record's window and is no part of the program's record.
\* The run stops counting a key two requests above the limit.
RateLimitRequest ==
    /\ \E key \in RateLimitKeys :
         LET fresh == key \notin DOMAIN rateLimitStore
                         \/ WindowOver(rateLimitStore[key])
             record == IF fresh
                       THEN [count |-> 0, left |-> RateLimitOptions.windowMs,
                             passed |-> 0]
                       ELSE rateLimitStore[key]
             exceeded == RateLimitExceeded(record.count + 1, RateLimitOptions.limit)
             stored == [record EXCEPT !.count = @ + 1,
                                      !.passed = IF exceeded THEN @ ELSE @ + 1]
         IN  /\ record.count < RateLimitOptions.limit + 2
             /\ rateLimitStore' =
                   [k \in DOMAIN rateLimitStore \cup {key} |->
                       IF k = key THEN stored ELSE rateLimitStore[k]]
             /\ lastResp' = IF exceeded
                            THEN RateLimitResp(key, 429, FALSE)
                            ELSE RateLimitResp(key, 200, TRUE)
    /\ UNCHANGED <<cache, memoCache, promises, verifyVars, webhookErrorCount,
                   payments_status, payments, uniqueOrderId, revision,
                   orderStore, issued, started, reqs>>

\* The clock advances by one tick.
RateLimitTick ==
    /\ \E k \in DOMAIN rateLimitStore : rateLimitStore[k].left > 0
    /\ rateLimitStore' =
          [k \in DOMAIN rateLimitStore |->
              [rateLimitStore[k] EXCEPT !.left = IF @ > 0 THEN @ - 1 ELSE @]]
    /\ lastResp' = NoResp
    /\ UNCHANGED <<cache, memoCache, promises, verifyVars, webhookErrorCount,
                   payments_status, payments, uniqueOrderId, revision,
                   orderStore, issued, started, reqs>>

\* The cleanup interval: records whose window is over are deleted.
RateLimitCleanup ==
    /\ \E k \in DOMAIN rateLimitStore : WindowOver(rateLimitStore[k])
    /\ rateLimitStore' =
          [k \in {j \in DOMAIN rateLimitStore : ~WindowOver(rateLimitStore[j])} |->
              rateLimitStore[k]]
    /\ lastResp' = NoResp
    /\ UNCHANGED <<cache, memoCache, promises, verifyVars, webhookErrorCount,
                   payments_status, payments, uniqueOrderId, revision,
                   orderStore, issued, started, reqs>>

RateLimitNext ==
    \/ RateLimitRequest
    \/ RateLimitTick
    \/ RateLimitCleanup

SpecRateLimit == InitKeyed /\ [][RateLimitNext]_vars

\* ------------------------------------------------------- utils/cache.ts
CacheKeys == {"k1", "k2"}

CacheValues == {"v1", "v2"}

\* An expiry check that never finds an item expired.
IsExpiredNever(item) == FALSE

\* item.expiry < Date.now(), with left = expiry - now.
IsExpired(item) == item.left < 0

\* evicted records whether the operation deleted an item of the key.
CacheResp(op, key, value, evicted) ==
    [kind |-> "cache", op |-> op, key |-> key, value |-> value,
     evicted |-> evicted]

\* Map.delete.
CacheRemove(c, key) == [k \in DOMAIN c \ {key} |-> c[k]]

\* set(key, value, ttlSeconds).
CacheSet ==
    /\ \E key \in CacheKeys, value \in CacheValues, ttlSeconds \in 0..TTL :
         /\ cache' = [k \in DOMAIN cache \cup {key} |->
                         IF k = key THEN [value |-> value, left |-> ttlSeconds]
                         ELSE cache[k]]
         /\ lastResp' = CacheResp("set", key, value, FALSE)
    /\ UNCHANGED <<rateLimitStore, memoCache, promises, verifyVars,
                   webhookErrorCount, payments_status, payments, uniqueOrderId,
                   revision, orderStore, issued, started, reqs>>

\* get(key): undefined for a key without item or with an expired one, which
\* is deleted; otherwise the item's value.
CacheGet ==
    /\ \E key \in CacheKeys :
         IF key \notin DOMAIN cache
         THEN /\ cache' = cache
              /\ lastResp' = CacheResp("get", key, UNDEFINED, FALSE)
         ELSE IF IsExpired(cache[key])
         THEN /\ cache' = CacheRemove(cache, key)
              /\ lastResp' = CacheResp("get", key, UNDEFINED, TRUE)
         ELSE /\ cache' = cache
              /\ lastResp' = CacheResp("get", key, cache[key].value, FALSE)
    /\ UNCHANGED <<rateLimitStore, memoCache, promises, verifyVars,
                   webhookErrorCount, payments_status, payments, uniqueOrderId,
                   revision, orderStore, issued, started, reqs>>

\* delete(key).
CacheDelete ==
    /\ \E key \in CacheKeys :
         /\ cache' = CacheRemove(cache, key)
         /\ lastResp' = CacheResp("delete", key, UNDEFINED, key \in DOMAIN cache)
    /\ UNCHANGED <<rateLimitStore, memoCache, promises, verifyVars,
                   webhookErrorCount, payments_status, payments, uniqueOrderId,
                   revision, orderStore, issued, started, reqs>>

\* cleanExpired().
CacheCleanExpired ==
    /\ cache' = [k \in {j \in DOMAIN cache : ~IsExpired(cache[j])} |-> cache[k]]
    /\ lastResp' = CacheResp("cleanExpired", NULL, UNDEFINED,
                          \E k \in DOMAIN cache : IsExpired(cache[k]))
    /\ UNCHANGED <<rateLimitStore, memoCache, promises, verifyVars,
                   webhookErrorCount, payments_status, payments, uniqueOrderId,
                   revision, orderStore, issued, started, reqs>>

\* The clock advances by one tick; an item is followed until it has expired.
CacheTick ==
    /\ \E k \in DOMAIN cache : cache[k].left >= 0
    /\ cache' = [k \in DOMAIN cache |->
                    [cache[k] EXCEPT !.left = IF @ >= 0 THEN @ - 1 ELSE @]]
    /\ lastResp' = NoResp
    /\ UNCHANGED <<rateLimitStore, memoCache, promises, verifyVars,
                   webhookErrorCount, payments_status, payments, uniqueOrderId,
                   revision, orderStore, issued, started, reqs>>

CacheNext ==
    \/ CacheSet
    \/ CacheGet
    \/ CacheDelete
    \/ CacheCleanExpired
    \/ CacheTick

SpecCache == InitKeyed /\ [][CacheNext]_vars

\* ------------------------------------------- utils/rate-limit.ts: memoizeAsync
MemoKeys == {"a", "b"}

\* op: "call", "settle", "resume" or "clear"; promise: the promise the step
\* is about; invoked: the step called fn.
MemoResp(op, key, promise, invoked) ==
    [kind |-> "memo", op |-> op, key |-> key, promise |-> promise,
     invoked |-> invoked]

\* fn may be invoked once more.
CanInvoke == CanStart /\ Len(promises) < MaxRequests

\* memoized(...args) up to its await: a cached promise is returned as it is;
\* otherwise fn is invoked, its promise is cached and the caller awaits it.
\* promises lists the invocations of fn; cleared records that clearCache ran
\* after the invocation.
MemoCall ==
    /\ \E key \in MemoKeys :
         IF key \in DOMAIN memoCache
         THEN /\ lastResp' = MemoResp("call", key, memoCache[key], FALSE)
              /\ UNCHANGED <<memoCache, promises, reqs>>
         ELSE /\ CanInvoke
              /\ promises' = Append(promises, [key |-> key, state |-> "pending",
                                               cleared |-> FALSE])
              /\ memoCache' = [k \in DOMAIN memoCache \cup {key} |->
                                  IF k = key THEN Len(promises) + 1
                                  ELSE memoCache[k]]
              /\ reqs' = Start([Idle EXCEPT !.kind = "memo", !.pc = "await",
                                            !.key = key,
                                            !.promise = Len(promises) + 1])
              /\ lastResp' = MemoResp("call", key, Len(promises) + 1, TRUE)
    /\ UNCHANGED <<rateLimitStore, cache, verifyVars, webhookErrorCount,
                   payments_status, payments, uniqueOrderId, revision,
                   orderStore, issued, started>>

\* The promise of an invocation of fn resolves or rejects.
MemoSettle ==
    /\ \E i \in 1..Len(promises), outcome \in {"resolved", "rejected"} :
         /\ promises[i].state = "pending"
         /\ promises' = [promises EXCEPT ![i].state = outcome]
         /\ lastResp' = MemoResp("settle", promises[i].key, i, FALSE)
    /\ UNCHANGED <<rateLimitStore, cache, memoCache, verifyVars,
                   webhookErrorCount, payments_status, payments, uniqueOrderId,
                   revision, orderStore, issued, started, reqs>>

\* The caller that invoked fn continues after its await: it returns the
\* result, or deletes the key and throws.
MemoResume ==
    /\ \E q \in BagToSet(reqs) :
         /\ q.kind = "memo" /\ q.pc = "await"
         /\ promises[q.promise].state # "pending"
         /\ memoCache' =
                IF promises[q.promise].state = "rejected"
                THEN [k \in DOMAIN memoCache \ {q.key} |-> memoCache[k]]
                ELSE memoCache
         /\ reqs' = reqs (-) SetToBag({q})
         /\ lastResp' = MemoResp("resume", q.key, q.promise, FALSE)
    /\ UNCHANGED <<rateLimitStore, cache, promises, verifyVars,
                   webhookErrorCount, payments_status, payments, uniqueOrderId,
                   revision, orderStore, issued, started>>

\* memoized.clearCache().
MemoClearCache ==
    /\ DOMAIN memoCache # {}
    /\ memoCache' = [k \in {} |-> 0]
    /\ promises' = [i \in 1..Len(promises) |->
                       [promises[i] EXCEPT !.cleared = TRUE]]
    /\ lastResp' = MemoResp("clear", NULL, 0, FALSE)
    /\ UNCHANGED <<rateLimitStore, cache, verifyVars, webhookErrorCount,
                   payments_status, payments, uniqueOrderId, revision,
                   orderStore, issued, started, reqs>>

MemoNext ==
    \/ MemoCall
    \/ MemoSettle
    \/ MemoResume
    \/ MemoClearCache

SpecMemo == InitKeyed /\ [][MemoNext]_vars

\* The canonical mapping table, word by word.
CanonicalStatus(raw) ==
    CASE raw \in {"paid", "PAID", "Paid", "completed", "COMPLETED", "Completed",
                  "success", "SUCCESS"} -> PAID
      [] raw \in {"refunded", "REFUNDED", "Refunded"} -> REFUNDED
      [] raw \in {"void", "VOID", "Void", "cancelled", "CANCELLED", "canceled",
                  "CANCELED"} -> VOID
      [] OTHER -> PENDING

\* C11: mapPaymentStatus matches the canonical table for every input,
\* whatever its case, and maps every other string to PENDING.
C11_MapperTable ==
    lastResp.kind = "map" => lastResp.status = CanonicalStatus(lastResp.raw)

\* C12: a call of updatePaymentStatus that follows another one for the same
\* order and carries no ids leaves the stored numeric_id and identifier_id of
\* the order's record as they were, and sets its status to the given value.
C12_IdsPreserved ==
    [][\A q \in InFlight :
          (/\ q.kind = "then" /\ q.round = 2
           /\ reqs' = Finish(q)
           /\ lastResp'.wrote
           /\ RowIdx(payments_status, q.orderId) # {})
          => \A i \in RowIdx(payments_status, q.orderId) :
                /\ payments_status'[i].numeric_id = payments_status[i].numeric_id
                /\ payments_status'[i].identifier_id
                      = payments_status[i].identifier_id
                /\ payments_status'[i].status = q.status]_vars

\* C12 witness: a follow-up call without ids has succeeded on a record that
\* holds both ids, and the record has the follow-up's status.
C12_Witness ==
    /\ lastResp.kind = "then"
    /\ lastResp.ok
    /\ \E i \in RowIdx(payments_status, lastResp.orderId) :
         /\ payments_status[i].numeric_id # NULL
         /\ payments_status[i].identifier_id # NULL
         /\ payments_status[i].status = TIMEOUT

\* C13: once a record holds a numeric_id or an identifier_id, no later state
\* holds that record with the id absent, concurrent updates included.  Stated
\* for orders with a single record, apart from the duplicates of C2.
C13_IdNeverNulled ==
    [][\A i \in 1..Len(payments_status) :
          RowIdx(payments_status', payments_status[i].order_id) = {i}
          => /\ payments_status[i].numeric_id # NULL
                   => payments_status'[i].numeric_id # NULL
             /\ payments_status[i].identifier_id # NULL
                   => payments_status'[i].identifier_id # NULL]_vars

\* Statuses after which an order is settled.
Terminal == {PAID, VOID, REFUNDED, TIMEOUT}

\* C14: settled statuses are not immutable: when a webhook's status write
\* succeeds on an order whose one record holds TIMEOUT, PAID, VOID or REFUNDED,
\* the webhook is answered 200 and the record then holds the webhook's mapped
\* status.
C14_TerminalOverwritten ==
    [][\A q \in InFlight :
          (/\ q.kind = "webhook" /\ q.pc = "write"
           /\ reqs' = Finish(q)
           /\ lastResp'.wrote
           /\ \E i \in 1..Len(payments_status) :
                 /\ RowIdx(payments_status', q.orderId) = {i}
                 /\ payments_status[i].status \in Terminal)
          => /\ lastResp'.code = 200 /\ lastResp'.ok
             /\ \A i \in RowIdx(payments_status', q.orderId) :
                   payments_status'[i].status = q.status]_vars

\* C14 witness: a webhook has been answered 200, and the order it resolved to,
\* read as TIMEOUT by the webhook's existence check, is now PAID.
C14_Witness ==
    /\ lastResp.kind = "webhook" /\ lastResp.code = 200 /\ lastResp.wrote
    /\ lastResp.prior = TIMEOUT
    /\ \A i \in RowIdx(payments_status, lastResp.orderId) :
         payments_status[i].status = PAID

\* C15: a webhook with a status outside the table ("disputed") whose status
\* write succeeds on an order with one record is answered 200 with success,
\* and the record then holds PENDING, whatever it held before.
C15_UnrecognizedIsPending ==
    [][\A q \in InFlight :
          (/\ q.kind = "webhook" /\ q.raw = "disputed" /\ q.pc = "write"
           /\ reqs' = Finish(q)
           /\ lastResp'.wrote
           /\ Cardinality(RowIdx(payments_status', q.orderId)) = 1)
          => /\ lastResp'.code = 200 /\ lastResp'.ok
             /\ \A i \in RowIdx(payments_status', q.orderId) :
                   payments_status'[i].status = PENDING]_vars

\* C15 witness: a "disputed" webhook has been answered 200 and the record it
\* resolved to, read as PAID by the existence check, now holds PENDING.
C15_Witness ==
    /\ lastResp.kind = "webhook" /\ lastResp.raw = "disputed"
    /\ lastResp.code = 200 /\ lastResp.ok /\ lastResp.wrote
    /\ lastResp.prior = PAID
    /\ \A i \in RowIdx(payments_status, lastResp.orderId) :
         payments_status[i].status = PENDING

\* C16: a webhook of the current handler whose event name is not
\* order_created is answered 200 with success in the step that receives it,
\* does no store work, and leaves the payments_status records, the index and
\* the error counter as they were.
C16_IgnoredEventNoChange ==
    [][/\ \A q \in BagToSet(reqs') :
             q.kind = "webhook" => q.event = "order_created"
       /\ (lastResp'.kind = "webhook" /\ lastResp'.event = "subscription_updated")
             => /\ lastResp'.code = 200 /\ lastResp'.ok
                /\ reqs' = reqs
                /\ payments_status' = payments_status
                /\ orderStore' = orderStore
                /\ webhookErrorCount' = webhookErrorCount]_vars

\* C16 witness: a subscription_updated webhook has just been acknowledged
\* while the table holds a record, the index an entry, and the error counter
\* is not zero.
C16_Witness ==
    /\ lastResp.kind = "webhook" /\ lastResp.event = "subscription_updated"
    /\ lastResp.code = 200
    /\ payments_status # <<>>
    /\ DOMAIN orderStore # {}
    /\ webhookErrorCount > 0

\* C17: a failure of the payment store never escapes the webhook handler:
\* every webhook that carries an order identifier is answered 200, whether
\* the lookup, the pending search or the status write failed.
C17_StoreFailureAnswered2xx ==
    (lastResp.kind = "webhook" /\ lastResp.path \notin {"missing", "parse"})
        => lastResp.code = 200

\* C18: a time limit running out at any stage of the webhook handler (body
\* parse, lookup, pending search, status write) is not fatal: the webhook is
\* still answered 200.
C18_TimeoutAnswered2xx ==
    (lastResp.kind = "webhook" /\ lastResp.path \in {"parse", "searcherror", "timeout"})
        => lastResp.code = 200

\* The index holds an entry for order id o.
IndexHolds(o) == \E k \in DOMAIN orderStore : orderStore[k].orderId = o

\* C19: when a checkout for which the provider returned an order id is
\* answered with its checkout URL, the index holds an entry for the order and
\* the table holds a record of the order with status PENDING.
C19_CheckoutLeavesPending ==
    (lastResp.kind = "checkout" /\ lastResp.orderId # NULL /\ lastResp.code = 200)
        => /\ IndexHolds(lastResp.orderId)
           /\ \E i \in RowIdx(payments_status, lastResp.orderId) :
                 payments_status[i].status = PENDING

\* C20: when the initial PENDING write of a checkout fails, the checkout is
\* still answered 200 with the order id, and the index entry of the order
\* remains.
C20_CheckoutSurvivesWriteFailure ==
    (lastResp.kind = "checkout" /\ lastResp.orderId # NULL /\ ~lastResp.wrote)
        => /\ lastResp.code = 200 /\ lastResp.ok
           /\ IndexHolds(lastResp.orderId)

\* The outcomes in a log of attempts.
Outcomes(log) == {log[i] : i \in 1..Len(log)}

\* C21: retryWithBackoff with the default maxRetries invokes the provider call
\* at most 3 times in total, whatever the failures.
C21_AtMostThreeAttempts ==
    /\ \A q \in InFlight : q.kind = "retry" => Len(q.log) <= 3
    /\ lastResp.kind = "retry" => Len(lastResp.log) <= 3

\* C22: an attempt that fails with a 4xx response is the last one: the
\* function is not invoked again and that error is what the call throws.
C22_NoRetryOn4xx ==
    /\ \A q \in InFlight : q.kind = "retry" => "4xx" \notin Outcomes(q.log)
    /\ (lastResp.kind = "retry" /\ "4xx" \in Outcomes(lastResp.log))
          => /\ lastResp.log[Len(lastResp.log)] = "4xx"
             /\ lastResp.outcome = "thrown"
             /\ lastResp.error = "4xx"
             /\ Cardinality({i \in 1..Len(lastResp.log) : lastResp.log[i] = "4xx"}) = 1

\* C22 witness: the call has thrown a 4xx error met on the attempt that
\* followed a retried 5xx failure.
C22_Witness ==
    /\ lastResp.kind = "retry"
    /\ lastResp.log = <<"5xx", "4xx">>
    /\ lastResp.outcome = "thrown"

\* C23: the verify handler with the cache never queries the provider for an
\* order id for which it queried the provider less than the interval ago.
C23_OneQueryPerInterval ==
    /\ \A q \in InFlight : (q.kind = "verify" /\ q.path = "cached") => ~q.requery
    /\ (lastResp.kind = "verify" /\ lastResp.path = "cached") => ~lastResp.requery

\* C24: the status a verify request writes is the one mapPaymentStatus of the
\* webhook handler gives for the provider's status string.
C24_VerifyUsesWebhookMapper ==
    \A q \in InFlight :
       (q.kind = "verify" /\ q.pc \in {"select", "write"})
       => q.status = mapPaymentStatus(q.raw)

\* C25: a webhook whose x-signature header is missing or does not verify
\* changes no record of payments_status.
C25_UnsignedLeavesStore ==
    [][\A q \in InFlight :
          (/\ q.kind = "webhook"
           /\ q.signature # Digest
           /\ reqs' = Finish(q))
          => payments_status' = payments_status]_vars

\* C26: the signature-checking handler answers every request whose
\* x-signature value is not the digest of the body, of whatever length, with
\* a 4xx status and code INVALID_SIGNATURE, never with a 5xx status.
C26_InvalidSignatureIs4xx ==
    (lastResp.kind = "signed" /\ lastResp.signature \notin {NoSignature, Digest})
        => /\ lastResp.code \in 400..499
           /\ lastResp.error = "INVALID_SIGNATURE"

\* C27: a request under /api/ that is no OPTIONS request, goes to neither the
\* webhook nor the token endpoint and carries no Bearer token that verifies
\* is answered 401 by the middleware and is not passed on to a route handler.
C27_UnauthenticatedIs401 ==
    (/\ lastResp.kind = "middleware"
     /\ lastResp.method # "OPTIONS"
     /\ lastResp.pathname \notin {WebhookPath, EarlierWebhookPath, TokenPath}
     /\ lastResp.authHeader # [scheme |-> "Bearer", token |-> "valid"])
        => /\ lastResp.code = 401
           /\ ~lastResp.next

\* C28: findPendingPayments returns only rows with status PENDING and no
\* numeric_id, the later created first and at most 5 of them, and every row
\* that holds what checkout wrote as PaymentStatus.PENDING, without a
\* numeric id, is among the rows the search selects from.
C28_PendingSearch ==
    lastResp.kind = "pending"
        => /\ Len(lastResp.rows) <= PendingLimit
           /\ \A k \in 1..Len(lastResp.rows) :
                 /\ payments_status[lastResp.rows[k]].status = "PENDING"
                 /\ payments_status[lastResp.rows[k]].numeric_id = NULL
                 /\ k > 1 => lastResp.rows[k - 1] > lastResp.rows[k]
           /\ \A i \in 1..Len(payments_status) :
                 (/\ payments_status[i].status \in PendingValues
                  /\ payments_status[i].numeric_id = NULL)
                 => i \in PendingEligible(payments_status)

\* C29: a GET of the payment status changes neither payments_status nor the
\* index; unless the query itself fails, an order id with a stored record is
\* answered 200 with the status of a record of that order, and an order id
\* with no record 404 with code STATUS_NOT_FOUND.
C29_StatusIsPureRead ==
    [][lastResp'.kind = "status"
          => /\ payments_status' = payments_status
             /\ orderStore' = orderStore
             /\ payments' = payments
             /\ (lastResp'.orderId # NULL /\ lastResp'.code # 500)
                   => IF RowIdx(payments_status, lastResp'.orderId) = {}
                      THEN /\ lastResp'.code = 404
                           /\ lastResp'.error = "STATUS_NOT_FOUND"
                      ELSE /\ lastResp'.code = 200
                           /\ \E i \in RowIdx(payments_status, lastResp'.orderId) :
                                 payments_status[i].status = lastResp'.status]_vars

\* C29 witness: a GET has been answered 200 with PAID for an order that has a
\* record and an index entry.
C29_Witness ==
    /\ lastResp.kind = "status" /\ lastResp.code = 200
    /\ lastResp.status = PAID
    /\ RowIdx(payments_status, lastResp.orderId) # {}
    /\ IndexHolds(lastResp.orderId)

\* C29, the other case: a GET has been answered 404 while the table holds a
\* record of another order.
C29_WitnessNotFound ==
    /\ lastResp.kind = "status" /\ lastResp.code = 404
    /\ payments_status # <<>>

\* C30: a checkout for which the provider call fails, or whose answer lacks
\* the checkout URL or the order id, is answered 500 and adds neither an
\* index entry nor a payments_status record.
C30_FailedCheckoutCreatesNothing ==
    [][(lastResp'.kind = "checkout" /\ lastResp'.orderId = NULL)
          => /\ lastResp'.code = 500 /\ ~lastResp'.ok
             /\ orderStore' = orderStore
             /\ payments_status' = payments_status
             /\ reqs' = reqs]_vars

\* C30 witness: a checkout has just failed at the provider while the index
\* and the table hold the entry and the record of an earlier order.
C30_Witness ==
    /\ lastResp.kind = "checkout" /\ lastResp.orderId = NULL
    /\ lastResp.code = 500
    /\ DOMAIN orderStore # {}
    /\ payments_status # <<>>

\* The entry under key k leaves the index in this step: it is removed, or it
\* is older than the age a cleanup allows.
Leaves(k) ==
    \/ lastResp'.kind = "remove" /\ lastResp'.key = k
    \/ /\ lastResp'.kind = "cleanup"
       /\ k \in DOMAIN orderStore
       /\ orderStore[k].age > lastResp'.maxAgeMs

\* C31: index round trip.  No key has an order id at the start; a put makes
\* get of its key return the order id put; and get of a key returns the same
\* from one state to the next unless the step is a put on that key or the
\* key's entry expires or is removed in it.
C31_IndexRoundTrip ==
    /\ \A k \in IndexKeys : getOrderId(orderStore, k) = NULL
    /\ [][(lastResp'.kind = "put"
               => getOrderId(orderStore', lastResp'.key) = lastResp'.orderId)
          /\ (lastResp'.kind = "get"
               => lastResp'.result = getOrderId(orderStore', lastResp'.key))
          /\ (\A k \in IndexKeys :
                 (~(lastResp'.kind = "put" /\ lastResp'.key = k) /\ ~Leaves(k))
                 => getOrderId(orderStore', k) = getOrderId(orderStore, k))]_vars

\* C31 witness: get on the slot has returned the second order id while
\* another key holds the first, and the slot's entry has aged.
C31_Witness ==
    /\ lastResp.kind = "get" /\ lastResp.key = SessionSlot
    /\ lastResp.result = OrderIds[2]
    /\ getOrderId(orderStore, OrderIds[1]) = OrderIds[1]
    /\ orderStore[SessionSlot].age > 0

\* C32: every record of payments_status holds a status of the enumeration,
\* and a refunded or void webhook of the session-slot handler, which hands
\* the undefined PaymentStatus.VOIDED to updatePaymentStatus, leaves
\* PENDING in what it wrote: the records of the order its existence check
\* found, or else the record it inserted.
C32_StatusInEnum ==
    /\ \A i \in 1..Len(payments_status) : payments_status[i].status \in PaymentStatus
    /\ (/\ lastResp.kind = "slotwebhook"
        /\ lastResp.raw \in {"refunded", "void"}
        /\ lastResp.wrote)
          => IF lastResp.prior # NULL
             THEN \A i \in RowIdx(payments_status, lastResp.orderId) :
                     payments_status[i].status = PENDING
             ELSE /\ payments_status # <<>>
                  /\ payments_status[Len(payments_status)].order_id = lastResp.orderId
                  /\ payments_status[Len(payments_status)].status = PENDING

\* C32 witness: a refunded webhook of the session-slot handler has written
\* the record of its order, which its existence check had read as PAID.
C32_Witness ==
    /\ lastResp.kind = "slotwebhook" /\ lastResp.raw = "refunded"
    /\ lastResp.wrote
    /\ lastResp.prior = PAID
    /\ RowIdx(payments_status, lastResp.orderId) # {}

\* The webhook's identifier came from custom_data.order_id: the payload's own
\* identifier is never an order id.
FromCustomData(q) == q.identifier_id # NULL /\ q.identifier_id \notin Identifiers

\* C33: a webhook whose custom_data.order_id is the order id of a stored
\* record targets that order, so that its write touches no other order's
\* record, whatever PENDING records without numeric_id exist.
C33_CustomOrderIdWins ==
    [][\A q \in NewRequests :
          (/\ q.kind = "webhook"
           /\ FromCustomData(q)
           /\ RowIdx(payments_status, q.identifier_id) # {})
          => q.orderId = q.identifier_id]_vars

\* C34: whenever updatePaymentStatus reports success to a webhook, a record of
\* the order holds the status the webhook asked for, the fallback inserts
\* after a rejected first insert included.
C34_SuccessMeansStored ==
    [][\A q \in InFlight :
          (/\ q.kind = "webhook" /\ q.pc = "write"
           /\ reqs' = Finish(q)
           /\ lastResp'.wrote)
          => \E i \in RowIdx(payments_status', q.orderId) :
                payments_status'[i].status = q.status]_vars

\* C35: a webhook of the current handler that got as far as the status write
\* is answered 200, and its body says success exactly when the write was
\* applied.
C35_FailureReported ==
    (lastResp.kind = "webhook" /\ lastResp.path \notin {"ignored", "missing", "parse"})
        => /\ lastResp.code = 200
           /\ lastResp.ok <=> lastResp.wrote

\* C36: a verify request is answered with success only when its status write
\* was applied, and no result of a request whose write failed is in the
\* cache.
C36_VerifySuccessMeansWritten ==
    /\ (lastResp.kind = "verify" /\ lastResp.ok) => lastResp.wrote
    /\ \A k \in DOMAIN verificationsCache : verificationsCache[k].wrote

\* C37: in the session-slot revision the index holds at most the entry of the
\* slot, that entry is the order of the latest checkout, and every webhook
\* that is received targets that order, whichever order it was sent for.
C37_SlotReuseReplaces ==
    /\ [](revision = "slot"
            => /\ DOMAIN orderStore \subseteq {SessionSlot}
               /\ issued > 0 => getOrderId(orderStore, SessionSlot) = OrderIds[issued])
    /\ [][\A q \in NewRequests :
              q.kind = "slotwebhook" => q.orderId = OrderIds[issued]]_vars

\* C37 witness: after the checkouts of the first and the second order, a paid
\* webhook has been applied to the second order's record while the first
\* order's record is still PENDING.
C37_Witness ==
    /\ issued = 2
    /\ lastResp.kind = "slotwebhook" /\ lastResp.wrote /\ lastResp.raw = "paid"
    /\ lastResp.orderId = OrderIds[2]
    /\ \E i \in RowIdx(payments_status, OrderIds[2]) : payments_status[i].status = PAID
    /\ \E i \in RowIdx(payments_status, OrderIds[1]) : payments_status[i].status = PENDING

\* C38: in every window of every key at most limit requests are passed to
\* next(); a request beyond them is answered 429 without next() and leaves
\* the window's end where it was; and a request that finds the window over
\* starts a new window with count 1.
C38_RateLimit ==
    /\ [](\A k \in DOMAIN rateLimitStore :
             rateLimitStore[k].passed <= RateLimitOptions.limit)
    /\ [][lastResp'.kind = "ratelimit"
            => LET k == lastResp'.key
                   open == k \in DOMAIN rateLimitStore /\ rateLimitStore[k].left > 0
               IN  /\ lastResp'.code = 429 <=> ~lastResp'.next
                   /\ open => rateLimitStore'[k].left = rateLimitStore[k].left
                   /\ (open /\ rateLimitStore[k].passed = RateLimitOptions.limit)
                         => lastResp'.code = 429
                   /\ lastResp'.code = 429
                         => /\ open
                            /\ rateLimitStore'[k].passed = rateLimitStore[k].passed
                   /\ ~open => /\ rateLimitStore'[k].count = 1
                               /\ rateLimitStore'[k].left = RateLimitOptions.windowMs
                               /\ lastResp'.next]_vars

\* C38 witness: a request has been answered 429 in a window in which limit
\* requests were passed and which has one tick left.
C38_Witness ==
    /\ lastResp.kind = "ratelimit" /\ lastResp.code = 429
    /\ rateLimitStore[lastResp.key].passed = RateLimitOptions.limit
    /\ rateLimitStore[lastResp.key].left = 1
    /\ rateLimitStore[lastResp.key].count = RateLimitOptions.limit + 2

\* The key holds an item whose expiry time has not passed.
Live(k) == k \in DOMAIN cache /\ cache[k].left >= 0

\* C39: get returns the value of the key's item exactly when the item's
\* expiry time has not passed, otherwise undefined, and then the item is gone;
\* the value of an item is the one most recently set, since set stores it and
\* no other operation changes an item's value or puts its expiry off.
C39_CacheGet ==
    [][/\ (lastResp'.kind = "cache" /\ lastResp'.op = "get")
            => IF Live(lastResp'.key)
               THEN /\ lastResp'.value = cache[lastResp'.key].value
                    /\ cache' = cache
               ELSE /\ lastResp'.value = UNDEFINED
                    /\ lastResp'.key \notin DOMAIN cache'
       /\ (lastResp'.kind = "cache" /\ lastResp'.op = "set")
            => cache'[lastResp'.key].value = lastResp'.value
       /\ \A k \in DOMAIN cache' :
            (lastResp'.kind = "cache" /\ lastResp'.op = "set" /\ lastResp'.key = k)
            \/ /\ k \in DOMAIN cache
               /\ cache'[k].value = cache[k].value
               /\ cache'[k].left <= cache[k].left]_vars

\* C39 witness: get has found an expired item, returned undefined and removed
\* it, while the other key holds an item that has not expired.
C39_Witness ==
    /\ lastResp.kind = "cache" /\ lastResp.op = "get" /\ lastResp.key = "k1"
    /\ lastResp.value = UNDEFINED
    /\ lastResp.evicted
    /\ "k1" \notin DOMAIN cache
    /\ Live("k2")

\* C40: fn is invoked for a key only when every earlier invocation for the
\* key that clearCache has not dropped was rejected, so a call in flight or
\* resolved is never doubled by a further invocation; a call that finds the
\* key cached invokes nothing; and once the invoking caller has continued
\* after a rejection, the rejected promise is no longer the cached one.
C40_MemoizeAsync ==
    /\ \A i, j \in 1..Len(promises) :
         (i < j /\ promises[i].key = promises[j].key /\ ~promises[i].cleared)
            => promises[i].state = "rejected"
    /\ (lastResp.kind = "memo" /\ lastResp.op = "resume"
            /\ promises[lastResp.promise].state = "rejected")
         => lastResp.key \notin DOMAIN memoCache

====
